---- MODULE Spec2Model ----
(***************************************************************************)
(* A model of tsvm: the LC-3 virtual machine (src/src/cpu.ts), its         *)
(* terminal IO (src/src/IO/terminal.ts) and the two-pass assembler         *)
(* (src/unnamed/part_001) with its object serialiser.                      *)
(*                                                                         *)
(* Six specifications share the module:                                    *)
(*   Spec      main.ts: construct a CPU, loadImage, run                    *)
(*   SpecSE    CPU.signExtend as a pure function over all its inputs       *)
(*   SpecObj   Assembler.asArrayBuffer followed by CPU.loadImage, and      *)
(*             CPU.loadArray of the same vector                            *)
(*   SpecAsm   Assembler.passOne / passTwo over token streams              *)
(*   SpecLex   Lexer.tokenize over source texts                            *)
(*   SpecAgain a second Assembler.loadProgram call on a used instance      *)
(***************************************************************************)
EXTENDS Integers, Sequences, FiniteSets, TLC

VARIABLES
    \* ---- CPU (src/src/cpu.ts)
    registers,       \* this.registers: 0..9 -> word
    memory,          \* this.memory, kept sparse: the non-zero cells only
    out,             \* what the IO provider has written: a sequence of char codes
    pc,              \* where main.ts / CPU.run stands
    steps,           \* number of run-loop iterations made so far
    last,            \* ghost: what the last run-loop iteration did
    \* ---- object file
    image,           \* the bytes of the object image (a Buffer)
    \* ---- Lexer (src/src/assembler/lexer.ts)
    lexInput,        \* tokenize's `input`: the source text, a sequence of characters
    currentPosition, \* tokenize's currentPosition
    \* ---- Assembler (src/unnamed/part_001)
    calls,           \* number of loadProgram calls made on this Assembler
    tokenList,       \* tokenize's out / this.tokenList
    tokenIndex,      \* this.tokenIndex
    symbolTable,     \* the symbol table being built / used
    machineCode,     \* the word vector being built / this.machineCode
    locationCounter, \* the pass's local locationCounter (a JS number, maybe NaN)
    asmPc,           \* where loadProgram stands
    \* ---- signExtend as a pure function
    se               \* the call's inputs and results

cpuVars == <<registers, memory, out, pc, steps, last>>
lexVars == <<lexInput, currentPosition>>
asmVars == <<lexInput, currentPosition, calls, tokenList, tokenIndex, symbolTable,
             machineCode, locationCounter, asmPc>>
vars == <<registers, memory, out, pc, steps, last, image, lexInput, currentPosition,
          calls, tokenList, tokenIndex, symbolTable, machineCode, locationCounter,
          asmPc, se>>

(***************************************************************************)
(* JavaScript's 32-bit integer operators.  A value is the signed 32-bit    *)
(* integer the operator works on (every number the modelled code handles   *)
(* fits); the bitwise operators work on its two's-complement bits.         *)
(***************************************************************************)
Pow2(n) == 2 ^ n

\* a & b
RECURSIVE JsAnd(_, _)
JsAnd(a, b) ==
    IF a = 0 \/ b = 0 THEN 0
    ELSE IF a = -1 THEN b
    ELSE IF b = -1 THEN a
    ELSE (a % 2) * (b % 2) + 2 * JsAnd(a \div 2, b \div 2)

\* a | b
RECURSIVE JsOr(_, _)
JsOr(a, b) ==
    IF a = 0 THEN b
    ELSE IF b = 0 THEN a
    ELSE IF a = -1 \/ b = -1 THEN -1
    ELSE (IF (a % 2) + (b % 2) > 0 THEN 1 ELSE 0) + 2 * JsOr(a \div 2, b \div 2)

\* ~a
JsNot(a) == (-a) - 1

\* a << 1: bit 30 becomes the sign, bit 31 is lost
Shl1(a) ==
    LET low == a % 1073741824
        bit30 == (a \div 1073741824) % 2
    IN  IF bit30 = 1 THEN ((2 * low) - 2147483647) - 1 ELSE 2 * low

\* a << k
RECURSIVE ShlN(_, _)
ShlN(a, n) == IF n = 0 THEN a ELSE ShlN(Shl1(a), n - 1)

JsShl(a, k) == ShlN(a, k % 32)

\* a >> k (sign-propagating)
RECURSIVE ShrN(_, _)
ShrN(a, n) == IF n = 0 THEN a ELSE ShrN(a \div 2, n - 1)

JsShr(a, k) == ShrN(a, k % 32)

\* a >>> k (zero-fill).  For k = 0 the result of a negative a is an unsigned
\* 32-bit number; it is kept as the signed integer with the same 32 bits,
\* which is what the next bitwise operator makes of it.
JsUShr(a, k) ==
    IF k % 32 = 0 THEN a
    ELSE IF a >= 0 THEN ShrN(a, k % 32)
    ELSE ShrN(((a \div 2) + 1073741824) + 1073741824, (k % 32) - 1)

(***************************************************************************)
(* CPU.signExtend                                                          *)
(***************************************************************************)
\* a slip of "=" for "|=": the low bits of x are lost when the sign bit is set
signExtend_assign(x, bitCount) ==
    LET x1 == IF JsAnd(JsShr(x, bitCount - 1), 1) # 0
              THEN JsShl(65535, bitCount)
              ELSE x
    IN  JsAnd(x1, 65535)

\* the sign bit is looked for one place too high
signExtend_bit(x, bitCount) ==
    LET x1 == IF JsAnd(JsShr(x, bitCount), 1) # 0
              THEN JsOr(x, JsShl(65535, bitCount))
              ELSE x
    IN  JsAnd(x1, 65535)

signExtend(x, bitCount) ==
    LET x1 == IF JsAnd(JsShr(x, bitCount - 1), 1) # 0
              THEN JsOr(x, JsShl(65535, bitCount))
              ELSE x
    IN  JsAnd(x1, 65535)

(***************************************************************************)
(* Enumerations and storage.  src/ holds enums/registers.ts; enums/flags,  *)
(* enums/op-codes, enums/trap-codes and memory.ts are not in src/ and are  *)
(* taken from the specification (sections 3, 4.3 and 4.6).                 *)
(***************************************************************************)
R0 == 0
R7 == 7
RPC == 8
RCOND == 9
RCOUNT == 10
KBSR == 65024
KBDR == 65026
MEM_SIZE == 65536
PC_START == 12288

\* enum Flag
Flag == [POS |-> 1, ZRO |-> 2, NEG |-> 4]

\* enum OPCode: the top four bits of an instruction word
OPCode ==
    [BR |-> 0, ADD |-> 1, LD |-> 2, ST |-> 3, JSR |-> 4, AND |-> 5, LDR |-> 6,
     STR |-> 7, RTI |-> 8, NOT |-> 9, LDI |-> 10, STI |-> 11, JMP |-> 12,
     RES |-> 13, LEA |-> 14, TRAP |-> 15]

\* enum TRAPCode
TRAPCode ==
    [GETC |-> 32, OUT |-> 33, PUTS |-> 34, In |-> 35, PUTSP |-> 36, HALT |-> 37]

\* the value JavaScript calls undefined (no word is negative)
Undefined == -1

\* createMemory(size): an array of `size` 16-bit words, all zero
createMemory(size) == [i \in 0 .. (size - 1) |-> 0]

\* createMemory(CPU.MEM_SIZE) in the sparse form the model keeps memory in:
\* the non-zero cells only
zeroMemory == [a \in {} |-> 0]

\* JavaScript's ToUint16 (String.fromCharCode, DataView.setUint16):
\* the value modulo 2^16; undefined and NaN give 0
ToUint16(v) == IF v = Undefined THEN 0 ELSE v % 65536

\* the array holds whatever number is assigned
storeWord_raw(v) == IF v = Undefined THEN 0 ELSE v

\* an assignment to an element of an array of 16-bit words keeps the value
\* modulo 2^16
storeWord(v) == ToUint16(v)

\* memory[a] as an expression: undefined outside the array
MemGet(mem, a) ==
    IF a \in 0 .. (MEM_SIZE - 1)
    THEN (IF a \in DOMAIN mem THEN mem[a] ELSE 0)
    ELSE Undefined

\* memory[a] = v: ignored outside the array
MemSet(mem, a, v) ==
    IF a \in 0 .. (MEM_SIZE - 1)
    THEN LET w == storeWord(v)
             d == IF w = 0 THEN DOMAIN mem \ {a} ELSE DOMAIN mem \cup {a}
         IN  [x \in d |-> IF x = a THEN w ELSE mem[x]]
    ELSE mem

\* registers[i] = v
RegSet(regs, i, v) == [regs EXCEPT ![i] = storeWord(v)]

(***************************************************************************)
(* The IO provider (src/src/IO/terminal.ts).  One input is the key the     *)
(* user presses and the answer to "Would you like to quit?".               *)
(***************************************************************************)
Keys == {0, 65, 113, 33345, 65024}

\* the answer matters only when the key is q: the question is not asked otherwise
Inputs ==
    {[key |-> k, yes |-> FALSE] : k \in Keys} \cup {[key |-> 113, yes |-> TRUE]}

\* an input for an iteration that never asks for one
NoKey == [key |-> 0, yes |-> FALSE]

\* Terminal.getChar leaves the process when the key is q and the user agrees
GetCharExits(inp) == inp.key \in {113, 81} /\ inp.yes

\* Terminal.getChar's return value otherwise
GetChar(inp) == inp.key

\* Terminal.putChar
PutChar(o, char) == Append(o, ToUint16(char))

\* Terminal.print
Print_(o, str) == o \o str

HaltMsg == <<72, 65, 76, 84, 10>>

EnterMsg == <<69, 110, 116, 101, 114, 32, 97, 32, 99, 104, 97, 114, 97, 99, 116,
              101, 114, 58, 32>>

(***************************************************************************)
(* CPU.memRead, CPU.memWrite, CPU.updateFlags                              *)
(***************************************************************************)
\* the poll stores the status in bit 14
memRead_bit(mem, address, inp) ==
    IF address = KBSR
    THEN IF GetCharExits(inp)
         THEN [mem |-> mem, val |-> Undefined, polls |-> 1, exit |-> TRUE]
         ELSE LET input == GetChar(inp)
                  m1 == IF input # 0
                        THEN MemSet(MemSet(mem, KBSR, JsShl(1, 14)), KBDR, input)
                        ELSE MemSet(mem, KBSR, 0)
              IN  [mem |-> m1, val |-> MemGet(m1, address), polls |-> 1,
                   exit |-> FALSE]
    ELSE [mem |-> mem, val |-> MemGet(mem, address), polls |-> 0, exit |-> FALSE]

memRead(mem, address, inp) ==
    IF address = KBSR
    THEN IF GetCharExits(inp)
         THEN [mem |-> mem, val |-> Undefined, polls |-> 1, exit |-> TRUE]
         ELSE LET input == GetChar(inp)
                  m1 == IF input # 0
                        THEN MemSet(MemSet(mem, KBSR, JsShl(1, 15)), KBDR, input)
                        ELSE MemSet(mem, KBSR, 0)
              IN  [mem |-> m1, val |-> MemGet(m1, address), polls |-> 1,
                   exit |-> FALSE]
    ELSE [mem |-> mem, val |-> MemGet(mem, address), polls |-> 0, exit |-> FALSE]

memWrite(mem, address, value) == MemSet(mem, address, value)

\* the sign test looks at bit 14
updateFlags_bit(regs, reg) ==
    IF regs[reg] = 0 THEN RegSet(regs, RCOND, Flag.ZRO)
    ELSE IF JsShr(regs[reg], 14) # 0 THEN RegSet(regs, RCOND, Flag.NEG)
    ELSE RegSet(regs, RCOND, Flag.POS)

\* a zero result leaves the flags as they were
updateFlags_zero(regs, reg) ==
    IF regs[reg] = 0 THEN regs
    ELSE IF JsShr(regs[reg], 15) # 0 THEN RegSet(regs, RCOND, Flag.NEG)
    ELSE RegSet(regs, RCOND, Flag.POS)

\* a negative result sets N and P together
updateFlags_both(regs, reg) ==
    IF regs[reg] = 0 THEN RegSet(regs, RCOND, Flag.ZRO)
    ELSE IF JsShr(regs[reg], 15) # 0
         THEN RegSet(regs, RCOND, JsOr(Flag.NEG, Flag.POS))
    ELSE RegSet(regs, RCOND, Flag.POS)

updateFlags(regs, reg) ==
    IF regs[reg] = 0 THEN RegSet(regs, RCOND, Flag.ZRO)
    ELSE IF JsShr(regs[reg], 15) # 0 THEN RegSet(regs, RCOND, Flag.NEG)
    ELSE RegSet(regs, RCOND, Flag.POS)

(***************************************************************************)
(* CPU.run: one iteration of the while loop.  An iteration's outcome is a  *)
(* record: the registers, memory and output it leaves, where the run       *)
(* stands after it (loop, returned, thrown, exited), and for the           *)
(* properties the instruction's name, its destination register (or -1)     *)
(* and how often it called getChar.                                        *)
(***************************************************************************)
Res(regs, mem, o, p, op, dr, polls) ==
    [regs |-> regs, mem |-> mem, out |-> o, pc |-> p, op |-> op, dr |-> dr,
     polls |-> polls]

\* the fields of an instruction word
DR(instruction) == JsAnd(JsShr(instruction, 9), 7)
SR1(instruction) == JsAnd(JsShr(instruction, 6), 7)
SR2(instruction) == JsAnd(instruction, 7)

\* CPU.fetch: this.memRead(this.registers[RPC]++)
fetch(regs, mem, inp) ==
    LET r == memRead(mem, regs[RPC], inp)
    IN  [regs |-> RegSet(regs, RPC, regs[RPC] + 1), mem |-> r.mem,
         val |-> r.val, polls |-> r.polls, exit |-> r.exit]

opADD(regs, mem, o, instruction) ==
    LET r0 == DR(instruction)
        r1 == SR1(instruction)
        imm_flag == JsAnd(JsShr(instruction, 5), 1)
        v == IF imm_flag # 0
             THEN JsAnd(regs[r1] + signExtend(JsAnd(instruction, 31), 5), 65535)
             ELSE JsAnd(regs[r1] + regs[SR2(instruction)], 65535)
    IN  Res(updateFlags(RegSet(regs, r0, v), r0), mem, o, "loop", "ADD", r0, 0)

opAND(regs, mem, o, instruction) ==
    LET r0 == DR(instruction)
        r1 == SR1(instruction)
        imm_flag == JsAnd(JsShr(instruction, 5), 1)
        v == IF imm_flag # 0
             THEN JsAnd(regs[r1], signExtend(JsAnd(instruction, 31), 5))
             ELSE JsAnd(regs[r1], regs[SR2(instruction)])
    IN  Res(updateFlags(RegSet(regs, r0, v), r0), mem, o, "loop", "AND", r0, 0)

opNOT(regs, mem, o, instruction) ==
    LET r0 == DR(instruction)
        r1 == SR1(instruction)
        v == JsAnd(JsNot(regs[r1]), 65535)
    IN  Res(updateFlags(RegSet(regs, r0, v), r0), mem, o, "loop", "NOT", r0, 0)

\* the branch is taken whatever the condition flags are
opBR_always(regs, mem, o, instruction) ==
    LET pcOffset == signExtend(JsAnd(instruction, 511), 9)
    IN  Res(RegSet(regs, RPC, JsAnd(regs[RPC] + pcOffset, 65535)), mem, o, "loop",
            "BR", -1, 0)

opBR(regs, mem, o, instruction) ==
    LET pcOffset == signExtend(JsAnd(instruction, 511), 9)
        condFlags == JsAnd(JsShr(instruction, 9), 7)
        regs1 == IF JsAnd(condFlags, regs[RCOND]) # 0
                 THEN RegSet(regs, RPC, JsAnd(regs[RPC] + pcOffset, 65535))
                 ELSE regs
    IN  Res(regs1, mem, o, "loop", "BR", -1, 0)

opJMP(regs, mem, o, instruction) ==
    LET baseReg == SR1(instruction)
    IN  Res(RegSet(regs, RPC, regs[baseReg]), mem, o, "loop", "JMP", -1, 0)

\* the jump is made first and R7 receives the new RPC
opJSR_late(regs, mem, o, instruction) ==
    LET offsetFlag == JsAnd(JsShr(instruction, 11), 1)
        regs1 == IF offsetFlag # 0
                 THEN RegSet(regs, RPC,
                             JsAnd(regs[RPC]
                                   + signExtend(JsAnd(instruction, 2047), 11),
                                   65535))
                 ELSE RegSet(regs, RPC, regs[SR1(instruction)])
    IN  Res(RegSet(regs1, R7, regs1[RPC]), mem, o, "loop",
            IF offsetFlag # 0 THEN "JSR" ELSE "JSRR", -1, 0)

opJSR(regs, mem, o, instruction) ==
    LET regs1 == RegSet(regs, R7, regs[RPC])
        offsetFlag == JsAnd(JsShr(instruction, 11), 1)
        regs2 == IF offsetFlag # 0
                 THEN RegSet(regs1, RPC,
                             JsAnd(regs1[RPC]
                                   + signExtend(JsAnd(instruction, 2047), 11),
                                   65535))
                 ELSE RegSet(regs1, RPC, regs1[SR1(instruction)])
    IN  Res(regs2, mem, o, "loop", IF offsetFlag # 0 THEN "JSR" ELSE "JSRR", -1, 0)

opLD(regs, mem, o, instruction, inp) ==
    LET r0 == DR(instruction)
        pcOffset == signExtend(JsAnd(instruction, 511), 9)
        m == memRead(mem, JsAnd(regs[RPC] + pcOffset, 65535), inp)
    IN  IF m.exit THEN Res(regs, m.mem, o, "exited", "LD", r0, m.polls)
        ELSE Res(updateFlags(RegSet(regs, r0, m.val), r0), m.mem, o, "loop",
                 "LD", r0, m.polls)

opLDI(regs, mem, o, instruction, inp) ==
    LET r0 == DR(instruction)
        pcOffset == signExtend(JsAnd(instruction, 511), 9)
        m1 == memRead(mem, regs[RPC] + pcOffset, inp)
        m2 == memRead(m1.mem, m1.val, inp)
    IN  IF m1.exit THEN Res(regs, m1.mem, o, "exited", "LDI", r0, m1.polls)
        ELSE IF m2.exit
        THEN Res(regs, m2.mem, o, "exited", "LDI", r0, m1.polls + m2.polls)
        ELSE Res(updateFlags(RegSet(regs, r0, m2.val), r0), m2.mem, o, "loop",
                 "LDI", r0, m1.polls + m2.polls)

opLDR(regs, mem, o, instruction, inp) ==
    LET r0 == DR(instruction)
        baseReg == SR1(instruction)
        pcOffset == signExtend(JsAnd(instruction, 63), 6)
        m == memRead(mem, JsAnd(regs[baseReg] + pcOffset, 65535), inp)
    IN  IF m.exit THEN Res(regs, m.mem, o, "exited", "LDR", r0, m.polls)
        ELSE Res(updateFlags(RegSet(regs, r0, m.val), r0), m.mem, o, "loop",
                 "LDR", r0, m.polls)

opLEA(regs, mem, o, instruction) ==
    LET r0 == DR(instruction)
        pcOffset == signExtend(JsAnd(instruction, 511), 9)
        v == JsAnd(regs[RPC] + pcOffset, 65535)
    IN  Res(updateFlags(RegSet(regs, r0, v), r0), mem, o, "loop", "LEA", r0, 0)

\* the store sets the condition flags from the stored register, as a load does
opST_flags(regs, mem, o, instruction) ==
    LET r0 == DR(instruction)
        pcOffset == signExtend(JsAnd(instruction, 511), 9)
    IN  Res(updateFlags(regs, r0),
            memWrite(mem, JsAnd(regs[RPC] + pcOffset, 65535), regs[r0]),
            o, "loop", "ST", -1, 0)

opST(regs, mem, o, instruction) ==
    LET r0 == DR(instruction)
        pcOffset == signExtend(JsAnd(instruction, 511), 9)
    IN  Res(regs, memWrite(mem, JsAnd(regs[RPC] + pcOffset, 65535), regs[r0]),
            o, "loop", "ST", -1, 0)

opSTI(regs, mem, o, instruction, inp) ==
    LET r0 == DR(instruction)
        pcOffset == signExtend(JsAnd(instruction, 511), 9)
        m == memRead(mem, JsAnd(regs[RPC] + pcOffset, 65535), inp)
    IN  IF m.exit THEN Res(regs, m.mem, o, "exited", "STI", -1, m.polls)
        ELSE Res(regs, memWrite(m.mem, m.val, regs[r0]), o, "loop", "STI", -1,
                 m.polls)

opSTR(regs, mem, o, instruction) ==
    LET r0 == DR(instruction)
        baseReg == SR1(instruction)
        offset == signExtend(JsAnd(instruction, 63), 6)
    IN  Res(regs, memWrite(mem, JsAnd(regs[baseReg] + offset, 65535), regs[r0]),
            o, "loop", "STR", -1, 0)

\* TRAP PUTS: while (char) { putChar(char); address++; char = memRead(address) }
RECURSIVE putsLoop(_, _, _, _, _)
putsLoop(mem, o, address, inp, polls) ==
    LET m == memRead(mem, address, inp)
    IN  IF m.exit
        THEN [mem |-> m.mem, out |-> o, polls |-> polls + m.polls, exit |-> TRUE]
        ELSE IF m.val = 0 \/ m.val = Undefined
        THEN [mem |-> m.mem, out |-> o, polls |-> polls + m.polls, exit |-> FALSE]
        ELSE putsLoop(m.mem, PutChar(o, m.val), address + 1, inp, polls + m.polls)

\* TRAP PUTSP: the low byte, then the high byte when it is not zero
RECURSIVE putspLoop(_, _, _, _, _)
putspLoop(mem, o, address, inp, polls) ==
    LET m == memRead(mem, address, inp)
        char1 == JsAnd(m.val, 255)
        char2 == JsShr(m.val, 8)
        o1 == PutChar(o, char1)
        o2 == IF char2 # 0 THEN PutChar(o1, char2) ELSE o1
    IN  IF m.exit
        THEN [mem |-> m.mem, out |-> o, polls |-> polls + m.polls, exit |-> TRUE]
        ELSE IF m.val = 0 \/ m.val = Undefined
        THEN [mem |-> m.mem, out |-> o, polls |-> polls + m.polls, exit |-> FALSE]
        ELSE putspLoop(m.mem, o2, address + 1, inp, polls + m.polls)

\* HALT prints and leaves `running` set
trapHALT_on(regs, mem, o) ==
    Res(regs, mem, Print_(o, HaltMsg), "loop", "HALT", -1, 0)

\* case TRAPCode.HALT
trapHALT(regs, mem, o) ==
    Res(regs, mem, Print_(o, HaltMsg), "returned", "HALT", -1, 0)

opTRAP(regs, mem, o, instruction, inp) ==
    LET regs1 == RegSet(regs, R7, regs[RPC])
        vector == JsAnd(instruction, 255)
    IN  CASE vector = TRAPCode.GETC ->
               IF GetCharExits(inp)
               THEN Res(regs1, mem, o, "exited", "GETC", R0, 1)
               ELSE Res(updateFlags(RegSet(regs1, R0, GetChar(inp)), R0), mem, o,
                        "loop", "GETC", R0, 1)
          [] vector = TRAPCode.OUT ->
               Res(regs1, mem, PutChar(o, regs1[R0]), "loop", "OUT", -1, 0)
          [] vector = TRAPCode.PUTS ->
               LET l == putsLoop(mem, o, regs1[R0], inp, 0)
               IN  Res(regs1, l.mem, l.out, IF l.exit THEN "exited" ELSE "loop",
                       "PUTS", -1, l.polls)
          [] vector = TRAPCode.In ->
               LET o1 == Print_(o, EnterMsg)
                   char == GetChar(inp)
               IN  IF GetCharExits(inp)
                   THEN Res(regs1, mem, o1, "exited", "IN", R0, 1)
                   ELSE Res(updateFlags(RegSet(regs1, R0, char), R0), mem,
                            PutChar(o1, char), "loop", "IN", R0, 1)
          [] vector = TRAPCode.PUTSP ->
               LET l == putspLoop(mem, o, regs1[R0], inp, 0)
               IN  Res(regs1, l.mem, l.out, IF l.exit THEN "exited" ELSE "loop",
                       "PUTSP", -1, l.polls)
          [] vector = TRAPCode.HALT -> trapHALT(regs1, mem, o)
          [] OTHER -> Res(regs1, mem, o, "loop", "TRAP", -1, 0)

\* the unused op codes fall through the switch and the loop goes on
opUnused_skip(regs, mem, o, op) ==
    Res(regs, mem, o, "loop", IF op = OPCode.RTI THEN "RTI" ELSE "RES", -1, 0)

\* case OPCode.RES, case OPCode.RTI, default: throw new Error("Unused op code")
opUnused(regs, mem, o, op) ==
    Res(regs, mem, o, "thrown", IF op = OPCode.RTI THEN "RTI" ELSE "RES", -1, 0)

\* the switch of CPU.run on instruction >> 12
execute(regs, mem, o, instruction, inp) ==
    LET op == JsShr(instruction, 12)
    IN  CASE op = OPCode.ADD -> opADD(regs, mem, o, instruction)
          [] op = OPCode.AND -> opAND(regs, mem, o, instruction)
          [] op = OPCode.NOT -> opNOT(regs, mem, o, instruction)
          [] op = OPCode.BR -> opBR(regs, mem, o, instruction)
          [] op = OPCode.JMP -> opJMP(regs, mem, o, instruction)
          [] op = OPCode.JSR -> opJSR(regs, mem, o, instruction)
          [] op = OPCode.LD -> opLD(regs, mem, o, instruction, inp)
          [] op = OPCode.LDI -> opLDI(regs, mem, o, instruction, inp)
          [] op = OPCode.LDR -> opLDR(regs, mem, o, instruction, inp)
          [] op = OPCode.LEA -> opLEA(regs, mem, o, instruction)
          [] op = OPCode.ST -> opST(regs, mem, o, instruction)
          [] op = OPCode.STI -> opSTI(regs, mem, o, instruction, inp)
          [] op = OPCode.STR -> opSTR(regs, mem, o, instruction)
          [] op = OPCode.TRAP -> opTRAP(regs, mem, o, instruction, inp)
          [] OTHER -> opUnused(regs, mem, o, op)

\* one iteration: fetch, then the switch
iteration(regs, mem, o, inp) ==
    LET f == fetch(regs, mem, inp)
        r == execute(f.regs, f.mem, o, f.val, inp)
    IN  IF f.exit
        THEN [res |-> Res(f.regs, f.mem, o, "exited", "FETCH", -1, f.polls),
              instruction |-> Undefined]
        ELSE [res |-> [r EXCEPT !.polls = @ + f.polls], instruction |-> f.val]

(***************************************************************************)
(* The object image: Assembler.asArrayBuffer and CPU.loadImage             *)
(***************************************************************************)
\* DataView.setUint16(byteOffset, word, false): two bytes, high byte first
asArrayBuffer_le(mc) ==
    [i \in 1 .. (2 * Len(mc)) |->
        IF i % 2 = 1 THEN ToUint16(mc[(i + 1) \div 2]) % 256
        ELSE ToUint16(mc[(i + 1) \div 2]) \div 256]

asArrayBuffer(mc) ==
    [i \in 1 .. (2 * Len(mc)) |->
        IF i % 2 = 1 THEN ToUint16(mc[(i + 1) \div 2]) \div 256
        ELSE ToUint16(mc[(i + 1) \div 2]) % 256]

\* Buffer.readUint16BE(offset), offset counted from 0
readUint16BE(buf, offset) == buf[offset + 1] * 256 + buf[offset + 2]

RECURSIVE loadLoop(_, _, _, _)
loadLoop(mem, buf, origin, pos) ==
    IF (pos + 1) * 2 < Len(buf)
    THEN loadLoop(MemSet(mem, origin + pos, readUint16BE(buf, (pos + 1) * 2)),
                  buf, origin, pos + 1)
    ELSE mem

\* the words land one cell too high
loadImage_shift(mem, buf) == loadLoop(mem, buf, readUint16BE(buf, 0) + 1, 0)

loadImage(mem, buf) == loadLoop(mem, buf, readUint16BE(buf, 0), 0)

\* CPU.loadArray's loop: memory[origin + pos] = array[pos], pos counted from 0
RECURSIVE loadArrayLoop(_, _, _, _)
loadArrayLoop(mem, array, origin, pos) ==
    IF pos < Len(array)
    THEN loadArrayLoop(MemSet(mem, origin + pos, array[pos + 1]), array, origin,
                       pos + 1)
    ELSE mem

loadArray(mem, array) == loadArrayLoop(mem, array, array[1], 0)

(***************************************************************************)
(* Spec: main.ts.  A CPU is constructed, the boot image is loaded and run. *)
(* The boot image holds ProgLen words at 0x3000, each drawn from           *)
(* InstrPool; the run loop is followed for MaxSteps iterations.            *)
(***************************************************************************)
ProgLen == 2
MaxSteps == 4

InstrPool ==
    { 0,      \* BR with no condition bits: never taken (also the data word 0)
      1025,   \* x0401 BRz #1
      4094,   \* x0FFE BRnzp #-2
      4159,   \* x103F ADD R0, R0, #-1
      4608,   \* x1200 ADD R1, R0, R0
      4735,   \* x127F ADD R1, R1, #-1
      8703,   \* x21FF LD R0, #-1
      12289,  \* x3001 ST R0, #1
      16448,  \* x4040 JSRR R1
      16832,  \* x41C0 JSRR R7
      18432,  \* x4800 JSR #0
      20479,  \* x4FFF JSR #-1
      21615,  \* x546F AND R2, R1, #15
      24576,  \* x6000 LDR R0, R0, #0
      24640,  \* x6040 LDR R0, R1, #0
      28736,  \* x7040 STR R0, R1, #0
      32768,  \* x8000 RTI
      37439,  \* x923F NOT R1, R0
      40960,  \* xA000 LDI R0, #0
      41470,  \* xA1FE LDI R0, #-2
      41471,  \* xA1FF LDI R0, #-1
      45056,  \* xB000 STI R0, #0
      49152,  \* xC000 JMP R0
      49216,  \* xC040 JMP R1
      49600,  \* xC1C0 RET
      53248,  \* xD000 RES
      57344,  \* xE000 LEA R0, #0
      57855,  \* xE1FF LEA R0, #-1
      61440,  \* xF000 TRAP x00
      61472,  \* xF020 GETC
      61473,  \* xF021 OUT
      61474,  \* xF022 PUTS
      61475,  \* xF023 IN
      61476,  \* xF024 PUTSP
      61477,  \* xF025 HALT
      65024,  \* xFE00 TRAP x00, and the address KBSR as a data word
      65535 } \* xFFFF TRAP xFF, and the data word -1

Programs == [1 .. ProgLen -> InstrPool]

\* the object files main.ts may be given: origin 0x3000, then the program
BootImages == {asArrayBuffer(<<PC_START>> \o p) : p \in Programs}

NoLast == [op |-> "none", dr |-> -1, polls |-> 0, instruction |-> Undefined]

\* the assembler and signExtend take no part in Spec
AsmIdle ==
    /\ lexInput = <<>>
    /\ currentPosition = 0
    /\ calls = 0
    /\ tokenList = <<>>
    /\ tokenIndex = 0
    /\ symbolTable = <<>>
    /\ machineCode = <<>>
    /\ locationCounter = 0
    /\ asmPc = "idle"

SeIdle == se = <<>>

CpuIdle ==
    /\ registers = createMemory(RCOUNT)
    /\ memory = zeroMemory
    /\ out = <<>>
    /\ pc = "idle"
    /\ steps = 0
    /\ last = NoLast

\* new CPU(new Terminal()); readFileSync(bootPath)
Init ==
    /\ registers = createMemory(RCOUNT)
    /\ memory = zeroMemory
    /\ out = <<>>
    /\ pc = "start"
    /\ steps = 0
    /\ last = NoLast
    /\ image \in BootImages
    /\ AsmIdle
    /\ SeIdle

\* vm.loadImage(bootImage)
LoadImage ==
    /\ pc = "start"
    /\ memory' = loadImage(memory, image)
    /\ pc' = "loaded"
    /\ UNCHANGED <<registers, out, steps, last, image, asmVars, se>>

\* CPU.init, called first by CPU.run
init(regs) == RegSet(RegSet(regs, RCOND, Flag.ZRO), RPC, PC_START)

RunInit ==
    /\ pc = "loaded"
    /\ registers' = init(registers)
    /\ pc' = "loop"
    /\ UNCHANGED <<memory, out, steps, last, image, asmVars, se>>

\* one iteration of while (running)
Step ==
    /\ pc = "loop"
    /\ steps < MaxSteps
    /\ \E probe \in {iteration(registers, memory, out, NoKey)} :
       \E inp \in (IF probe.res.polls = 0 THEN {NoKey} ELSE Inputs) :
       \E it \in (IF inp = NoKey THEN {probe}
                  ELSE {iteration(registers, memory, out, inp)}) :
          /\ registers' = it.res.regs
          /\ memory' = it.res.mem
          /\ out' = it.res.out
          /\ pc' = it.res.pc
          /\ last' = [op |-> it.res.op, dr |-> it.res.dr,
                      polls |-> it.res.polls, instruction |-> it.instruction]
    /\ steps' = steps + 1
    /\ UNCHANGED <<image, asmVars, se>>

Next == LoadImage \/ RunInit \/ Step

Spec == Init /\ [][Next]_vars

\* the model's typing of the CPU state, and at most one getChar per iteration
CpuTypeOK ==
    /\ DOMAIN registers = 0 .. (RCOUNT - 1)
    /\ pc \in {"start", "loaded", "loop", "returned", "thrown", "exited"}
    /\ last.polls \in {0, 1}

(***************************************************************************)
(* Properties of the interpreter (Spec)                                    *)
(***************************************************************************)
\* the sign class of a 16-bit word
SignClass(v) ==
    IF v = 0 THEN Flag.ZRO
    ELSE IF (v \div 32768) % 2 = 1 THEN Flag.NEG
    ELSE Flag.POS

FlagOps == {"ADD", "AND", "NOT", "LD", "LDI", "LDR", "LEA", "GETC", "IN"}

\* C1: after an iteration that executed a flag-updating instruction (ADD, AND,
\* NOT, LD, LDI, LDR, LEA, TRAP GETC, TRAP IN) with destination register r,
\* RCOND is the sign class of the new registers[r]: ZRO for 0, NEG when bit 15
\* is set, POS otherwise.
C1_FlagsFollowResult ==
    (pc = "loop" /\ last.op \in FlagOps)
        => registers[RCOND] = SignClass(registers[last.dr])

\* C1 witness: ADD R0, R0, #-1 with R0 = 0 has left R0 = 0xFFFF and RCOND = NEG
C1_Witness ==
    /\ pc = "loop"
    /\ last.op = "ADD"
    /\ last.instruction = 4159
    /\ registers[R0] = 65535
    /\ registers[RCOND] = Flag.NEG

\* C2: once CPU.run has called init, RCOND is exactly one of POS = 1, ZRO = 2,
\* NEG = 4, whatever instructions, stores and traps have been executed.
C2_OneFlag ==
    pc \in {"loop", "returned", "thrown", "exited"}
        => registers[RCOND] \in {Flag.POS, Flag.ZRO, Flag.NEG}

\* C2 witness: a store executed while the flags are NEG has left them NEG
C2_Witness ==
    /\ last.op \in {"ST", "STR", "STI"}
    /\ registers[RCOND] = Flag.NEG

\* C3: every register (R0..R7, RPC, RCOND) and every memory word is an integer
\* in [0, 2^16), in every state reached by loadImage and run.
C3_WordsInRange ==
    /\ \A i \in DOMAIN registers : registers[i] \in 0 .. 65535
    /\ DOMAIN memory \subseteq 0 .. (MEM_SIZE - 1)
    /\ \A a \in DOMAIN memory : memory[a] \in 0 .. 65535

\* C3 witness: the word at 0xFFFF has been fetched and RPC has wrapped to 0
C3_Witness ==
    /\ pc = "loop"
    /\ last.op = "BR"
    /\ registers[RPC] = 0
    /\ registers[1] = 65535

\* the next iteration fetches a TRAP x25 word
HaltFetched ==
    /\ pc = "loop"
    /\ registers[RPC] # KBSR
    /\ JsShr(MemGet(memory, registers[RPC]), 12) = OPCode.TRAP
    /\ JsAnd(MemGet(memory, registers[RPC]), 255) = TRAPCode.HALT

\* C10: the iteration that executes TRAP x25 appends "HALT\n" to the output once
\* and ends the run loop; after the loop has ended no register, memory word or
\* output changes; and the loop ends only by HALT, by a thrown error or by the
\* user quitting at a getChar.
C10_HaltStops ==
    [][ /\ HaltFetched => (pc' = "returned" /\ out' = out \o HaltMsg)
        /\ pc = "returned" => UNCHANGED cpuVars
        /\ (pc = "loop" /\ pc' # "loop")
              => \/ (pc' = "returned" /\ HaltFetched)
                 \/ pc' \in {"thrown", "exited"} ]_vars

\* C10 witness: the program HALT has run: the output is "HALT\n", the loop ended
C10_Witness ==
    /\ pc = "returned"
    /\ last.op = "HALT"
    /\ out = HaltMsg
    /\ steps = 1

\* the word at RPC is RES (1101) or RTI (1000); the fetch is from plain memory
UnusedFetched ==
    /\ pc = "loop"
    /\ registers[RPC] # KBSR
    /\ (MemGet(memory, registers[RPC]) \div 4096) \in {13, 8}

\* C11: the iteration that fetches a word whose top four bits are 1101 (RES)
\* or 1000 (RTI) throws: the run ends in the error state, RPC has been
\* incremented by fetch and no other register, no memory word and no output
\* has changed; nothing changes after the throw.
C11_UnusedOpcodeFatal ==
    [][ /\ UnusedFetched
           => /\ pc' = "thrown"
              /\ registers' = [registers EXCEPT ![RPC] = (@ + 1) % 65536]
              /\ memory' = memory
              /\ out' = out
        /\ pc = "thrown" => UNCHANGED cpuVars ]_vars

\* C11 witness: one instruction, then RES: the run has thrown with RPC past
\* the RES and nothing printed
C11_Witness ==
    /\ pc = "thrown"
    /\ last.op = "RES"
    /\ last.instruction = 53248
    /\ steps = 2
    /\ registers[RPC] = PC_START + 2
    /\ out = <<>>

\* the word at RPC is a BR (0000); the fetch is from plain memory
BrFetched ==
    /\ pc = "loop"
    /\ registers[RPC] # KBSR
    /\ (MemGet(memory, registers[RPC]) \div 4096) = 0

\* the nzp field of the word at RPC has the bit of the one flag RCOND holds
BrTaken ==
    (((MemGet(memory, registers[RPC]) \div 512) % 8) \div registers[RCOND]) % 2 = 1

\* the 9-bit offset of the word at RPC as a signed number
BrOffset ==
    IF MemGet(memory, registers[RPC]) % 512 >= 256
    THEN (MemGet(memory, registers[RPC]) % 512) - 512
    ELSE MemGet(memory, registers[RPC]) % 512

\* C17: the iteration that fetches a BR leaves RPC at the incremented value
\* plus the sign-extended offset, modulo 2^16, if the nzp field and RCOND have
\* a bit in common, and at the incremented value otherwise; no other
\* register, RCOND included, no memory word and no output changes.
C17_Branch ==
    [][BrFetched
         => /\ pc' = "loop"
            /\ registers' = [registers EXCEPT ![RPC] =
                               IF BrTaken THEN (@ + 1 + BrOffset) % 65536
                               ELSE (@ + 1) % 65536]
            /\ memory' = memory
            /\ out' = out]_vars

\* C17 witness: at the start RCOND is ZRO, and BRz #1 has skipped one word
C17_Witness ==
    /\ pc = "loop"
    /\ steps = 1
    /\ last.instruction = 1025
    /\ registers[RCOND] = Flag.ZRO
    /\ registers[RPC] = PC_START + 2

\* ... and after LEA has set RCOND to POS, BRz #1 has fallen through
C17_WitnessFallThrough ==
    /\ pc = "loop"
    /\ steps = 2
    /\ last.instruction = 1025
    /\ registers[RCOND] = Flag.POS
    /\ registers[RPC] = PC_START + 2

(***************************************************************************)
(* SpecSE: CPU.signExtend over every bit count 1..16 and every x that fits *)
(* in that many bits, called once and then once more at full width.        *)
(***************************************************************************)
InitSE ==
    /\ \E n \in 1 .. 16 :
          \E x \in 0 .. (Pow2(n) - 1) :
             se = [x |-> x, bitCount |-> n, at |-> "args", result |-> Undefined,
                   again |-> Undefined]
    /\ CpuIdle
    /\ image = <<>>
    /\ AsmIdle

\* cpu.signExtend(x, bitCount)
SignExtendCall ==
    /\ se.at = "args"
    /\ se' = [se EXCEPT !.at = "once", !.result = signExtend(se.x, se.bitCount)]
    /\ UNCHANGED <<cpuVars, image, asmVars>>

\* cpu.signExtend(result, 16)
SignExtendAgain ==
    /\ se.at = "once"
    /\ se' = [se EXCEPT !.at = "twice", !.again = signExtend(se.result, 16)]
    /\ UNCHANGED <<cpuVars, image, asmVars>>

NextSE == SignExtendCall \/ SignExtendAgain

SpecSE == InitSE /\ [][NextSE]_vars

\* C4: for n in 1..16 and x in [0, 2^n), signExtend(x, n) is x when bit n-1 of
\* x is 0 and x + (2^16 - 2^n) when it is 1, and lies in [0, 2^16).
C4_SignExtendValue ==
    se.at \in {"once", "twice"}
        => /\ se.result \in 0 .. 65535
           /\ se.result =
                 IF (se.x \div Pow2(se.bitCount - 1)) % 2 = 0
                 THEN se.x
                 ELSE se.x + (65536 - Pow2(se.bitCount))

\* C4 witness: the test's first case, signExtend(0b11111, 5) = 0xFFFF
C4_Witness ==
    se.at = "once" /\ se.x = 31 /\ se.bitCount = 5 /\ se.result = 65535

\* C5: signExtend(signExtend(x, n), 16) = signExtend(x, n) for n in 1..16 and
\* x in [0, 2^n).
C5_SignExtendIdempotent ==
    se.at = "twice" => se.again = se.result

\* C5 witness: a negative 9-bit offset extended, then extended again at 16 bits
C5_Witness ==
    /\ se.at = "twice"
    /\ se.x = 256
    /\ se.bitCount = 9
    /\ se.result = 65280
    /\ se.again = 65280

(***************************************************************************)
(* SpecObj: a word vector is serialised by Assembler.asArrayBuffer and the *)
(* bytes are loaded by CPU.loadImage into a memory that an earlier load    *)
(* may have filled; or the vector is loaded as it is by CPU.loadArray.     *)
(***************************************************************************)
MaxObjLen == 2

ObjOrigins == {0, 12288, 65534, 65535}

ObjWords == {0, 1, 255, 256, 4660, 65535}

ObjVectors ==
    UNION {{<<o>> \o w : o \in ObjOrigins, w \in [1 .. n -> ObjWords]} :
           n \in 0 .. MaxObjLen}

\* memories an earlier loadImage can have left
PriorMemories ==
    {zeroMemory}
        \cup {loadImage(zeroMemory, asArrayBuffer(<<o, 43690, 48059, 52428>>)) :
              o \in {12287, 65533}}

InitObj ==
    /\ registers = createMemory(RCOUNT)
    /\ memory \in PriorMemories
    /\ out = <<>>
    /\ pc = "vector"
    /\ steps = 0
    /\ last = NoLast
    /\ image = <<>>
    /\ lexInput = <<>>
    /\ currentPosition = 0
    /\ calls = 0
    /\ tokenList = <<>>
    /\ tokenIndex = 0
    /\ symbolTable = <<>>
    /\ machineCode \in ObjVectors
    /\ locationCounter = 0
    /\ asmPc = "idle"
    /\ SeIdle

\* assembler.loadProgram(...).asArrayBuffer(), written to the object file
ObjSerialise ==
    /\ pc = "vector"
    /\ image' = asArrayBuffer(machineCode)
    /\ pc' = "buffer"
    /\ UNCHANGED <<registers, memory, out, steps, last, asmVars, se>>

\* vm.loadImage(readFileSync(...))
ObjLoad ==
    /\ pc = "buffer"
    /\ memory' = loadImage(memory, image)
    /\ pc' = "loaded"
    /\ UNCHANGED <<registers, out, steps, last, image, asmVars, se>>

\* vm.loadArray(assembler.loadProgram(...).machineCode): the vector is loaded
\* without being serialised
ObjLoadArray ==
    /\ pc = "vector"
    /\ memory' = loadArray(memory, machineCode)
    /\ pc' = "array"
    /\ UNCHANGED <<registers, out, steps, last, image, asmVars, se>>

NextObj == ObjSerialise \/ ObjLoad \/ ObjLoadArray

SpecObj == InitObj /\ [][NextObj]_vars

\* C9: serialising W = [origin, w1, ..., wN] and loading the bytes leaves
\* memory[origin + i - 1] = wi for every i in 1..N whose address is at most
\* 0xFFFF, stores the origin header nowhere, and leaves every other memory word
\* as it was.
C9_ObjectRoundTrip ==
    [][ (pc = "buffer" /\ pc' = "loaded")
          => LET origin == machineCode[1]
                 N == Len(machineCode) - 1
             IN  \A a \in (DOMAIN memory \cup DOMAIN memory'
                             \cup ((origin - 1) .. (origin + N)))
                            \cap (0 .. 65535) :
                    MemGet(memory', a) =
                       IF a \in origin .. (origin + N - 1)
                       THEN machineCode[a - origin + 2]
                       ELSE MemGet(memory, a) ]_vars

\* C9 witness: [x3000, x1234, x00FF] loaded over an earlier image: both words
\* are in place, the cells before and after keep the earlier image's words
C9_Witness ==
    /\ pc = "loaded"
    /\ machineCode = <<12288, 4660, 255>>
    /\ MemGet(memory, 12287) = 43690
    /\ MemGet(memory, 12288) = 4660
    /\ MemGet(memory, 12289) = 255
    /\ MemGet(memory, 12290) = 0

(***************************************************************************)
(* The assembler (src/unnamed/part_001).  A token is [type, text]; a text  *)
(* is the sequence of its characters.  A JavaScript number that may be NaN *)
(* (the location counter, a symbol's address) is an integer or NaN.        *)
(***************************************************************************)
NaN == -2000000000

NUMBER_TYPES == {"BINARY", "HEX", "DECIMAL"}

Digits == <<"0", "1", "2", "3", "4", "5", "6", "7", "8", "9",
            "a", "b", "c", "d", "e", "f">>

DigitVal(c) == (CHOOSE i \in 1 .. Len(Digits) : Digits[i] = c) - 1

RECURSIVE parseDigits(_, _, _)
parseDigits(chars, radix, acc) ==
    IF chars = <<>> THEN acc
    ELSE parseDigits(Tail(chars), radix, acc * radix + DigitVal(Head(chars)))

\* parseInt(str, radix) of an optional "-" and digits of the radix
parseInt(chars, radix) ==
    IF chars # <<>> /\ Head(chars) = "-"
    THEN -parseDigits(Tail(chars), radix, 0)
    ELSE parseDigits(chars, radix, 0)

\* Assembler.numLitToInt
numLitToInt(numStr) ==
    IF numStr = <<>> THEN NaN
    ELSE IF Head(numStr) = "#" THEN parseInt(Tail(numStr), 10)
    ELSE IF Head(numStr) = "x" THEN parseInt(Tail(numStr), 16)
    ELSE IF Head(numStr) = "b" THEN parseInt(Tail(numStr), 2)
    ELSE NaN

\* Assembler.numToBin; NaN >= 0 is false and NaN >>> 0 is 0
numToBin(num, bits) ==
    LET mask == JsUShr(JsNot(0), 32 - bits)
    IN  IF num = NaN THEN 0
        ELSE IF num >= 0 THEN JsAnd(num, mask)
        ELSE JsAnd(JsUShr(num, 0), mask)

\* a + b and a - b on numbers that may be NaN
NumAdd(a, b) == IF a = NaN \/ b = NaN THEN NaN ELSE a + b

NumSub(a, b) == IF a = NaN \/ b = NaN THEN NaN ELSE a - b

\* symbolTable[text]: undefined for a label never defined, which is NaN in
\* arithmetic and 0 under >>>
SymGet(st, text) == IF text \in DOMAIN st THEN st[text] ELSE NaN

\* symbolTable[text] = lc
SymSet(st, text, lc) ==
    [t \in DOMAIN st \cup {text} |-> IF t = text THEN lc ELSE st[t]]

\* Assembler.expectToken, called once for each entry of `wants`, an entry
\* being <<token types, bits>> (bits = 0: no constraint).  The result tells
\* whether a call threw, the index reached and the tokens returned.
RECURSIVE expectTokens(_, _, _, _)
expectTokens(tl, ti, wants, got) ==
    IF wants = <<>> THEN [ok |-> TRUE, ti |-> ti, toks |-> got]
    ELSE LET subToken == tl[(ti + 1) + 1]
             types == Head(wants)[1]
             bits == Head(wants)[2]
             num == numLitToInt(subToken.text)
         IN  IF (ti + 1) + 1 > Len(tl) THEN [ok |-> FALSE, ti |-> ti + 1, toks |-> got]
             ELSE IF subToken.type \notin types
             THEN [ok |-> FALSE, ti |-> ti + 1, toks |-> got]
             ELSE IF /\ subToken.type \in NUMBER_TYPES
                     /\ bits # 0
                     /\ (num < -Pow2(bits - 1) \/ num >= Pow2(bits))
             THEN [ok |-> FALSE, ti |-> ti + 1, toks |-> got]
             ELSE expectTokens(tl, ti + 1, Tail(wants), Append(got, subToken))

LabelOrNumber == {"LABEL"} \cup NUMBER_TYPES

IsBranch(text) ==
    text \in {<<"b", "r">>, <<"b", "r", "n", "z", "p">>, <<"b", "r", "n">>,
              <<"b", "r", "z">>, <<"b", "r", "p">>, <<"b", "r", "n", "z">>,
              <<"b", "r", "n", "p">>, <<"b", "r", "z", "p">>}

\* the expectToken calls an OPCODE token's case makes (the same in both passes)
operandsOf(text) ==
    CASE text \in {<<"a", "d", "d">>, <<"a", "n", "d">>} ->
           <<<<{"REGISTER"}, 0>>, <<{"REGISTER"}, 0>>,
             <<{"REGISTER"} \cup NUMBER_TYPES, 5>>>>
      [] text = <<"n", "o", "t">> -> <<<<{"REGISTER"}, 0>>, <<{"REGISTER"}, 0>>>>
      [] text \in {<<"l", "d">>, <<"l", "d", "i">>, <<"s", "t">>,
                   <<"s", "t", "i">>, <<"l", "e", "a">>} ->
           <<<<{"REGISTER"}, 0>>, <<LabelOrNumber, 9>>>>
      [] text \in {<<"s", "t", "r">>, <<"l", "d", "r">>} ->
           <<<<{"REGISTER"}, 0>>, <<{"REGISTER"}, 0>>, <<LabelOrNumber, 6>>>>
      [] text = <<"t", "r", "a", "p">> -> <<<<NUMBER_TYPES, 12>>>>
      [] text = <<"j", "m", "p">> -> <<<<{"REGISTER"}, 0>>>>
      [] text = <<"j", "s", "r">> -> <<<<LabelOrNumber, 11>>>>
      [] text = <<"j", "s", "r", "r">> -> <<<<{"REGISTER"}, 0>>>>
      [] IsBranch(text) -> <<<<LabelOrNumber, 9>>>>
      [] OTHER -> <<>>

\* the expectToken calls a directive's case makes
directiveOperands(type) ==
    CASE type \in {"BLKW", "ORIG"} -> <<<<NUMBER_TYPES, 0>>>>
      [] type = "STRINGZ" -> <<<<{"STRING"}, 0>>>>
      [] type = "FILL" -> <<<<LabelOrNumber, 0>>>>
      [] OTHER -> <<>>

StatementTypes ==
    {"BLKW", "STRINGZ", "ORIG", "END", "FILL", "OPCODE", "LABEL", "NEW_LINE"}

\* one iteration of passOne's while loop
passOneIter(tl, ti, st, lc) ==
    LET token == tl[ti + 1]
        e == expectTokens(tl, ti,
                          IF token.type = "OPCODE" THEN operandsOf(token.text)
                          ELSE directiveOperands(token.type), <<>>)
        lc1 == CASE token.type = "BLKW" -> NumAdd(lc, numLitToInt(e.toks[1].text))
                 [] token.type = "STRINGZ" -> NumAdd(lc, Len(e.toks[1].text) + 1)
                 [] token.type = "ORIG" -> numLitToInt(e.toks[1].text)
                 [] token.type = "END" -> NaN
                 [] token.type = "FILL" -> NumAdd(lc, 1)
                 [] token.type = "OPCODE" -> NumAdd(lc, 1)
                 [] OTHER -> lc
        st1 == IF token.type = "LABEL" THEN SymSet(st, token.text, lc) ELSE st
    IN  IF token.type \notin StatementTypes \/ ~e.ok
        THEN [ok |-> FALSE, ti |-> ti, st |-> st, lc |-> lc]
        ELSE [ok |-> TRUE, ti |-> e.ti + 1, st |-> st1, lc |-> lc1]

\* the offset is taken from the label's address backwards
labelOrNumToBin_rev(token, lc, bits, absAddr, st) ==
    LET num == IF token.type \in NUMBER_TYPES THEN numLitToInt(token.text)
               ELSE IF absAddr THEN SymGet(st, token.text)
               ELSE NumSub(lc, SymGet(st, token.text))
    IN  numToBin(num, bits)

\* Assembler.labelOrNumToBin, reading this.symbolTable = st
labelOrNumToBin(token, lc, bits, absAddr, st) ==
    LET num == IF token.type \in NUMBER_TYPES THEN numLitToInt(token.text)
               ELSE IF absAddr THEN SymGet(st, token.text)
               ELSE NumSub(SymGet(st, token.text), lc)
    IN  numToBin(num, bits)

\* Assembler.registerToBin
registerToBin(token) == numToBin(parseInt(Tail(token.text), 10), 16)

\* String.prototype.charCodeAt for the characters the programs use
CharCodes == [H |-> 72, i |-> 105]

charCodeAt(text, i) == CharCodes[text[i]]

\* text.indexOf(c) !== -1
Contains(text, c) == \E i \in 1 .. Len(text) : text[i] = c

\* the header is taken from the location counter instead of the operand
origHeader_lc(mc, lc, num) ==
    IF lc = NaN THEN Append(mc, numToBin(lc, 16)) ELSE mc

\* the .ORIG case's push: the header word, only while no section is open
origHeader(mc, lc, num) ==
    IF lc = NaN THEN Append(mc, numToBin(num, 16)) ELSE mc

\* .BLKW's loop: a push of 0 for every _ in 0 .. num - 1
RECURSIVE pushZeros(_, _, _)
pushZeros(mc, from, num) ==
    IF from < num THEN pushZeros(Append(mc, 0), from + 1, num) ELSE mc

\* .STRINGZ's loop: a push of every character's code
RECURSIVE pushChars(_, _, _)
pushChars(mc, text, i) ==
    IF i <= Len(text)
    THEN pushChars(Append(mc, numToBin(charCodeAt(text, i), 16)), text, i + 1)
    ELSE mc

\* the words an OPCODE token's case pushes; lc is already incremented
encode(text, a, lc, st) ==
    CASE text \in {<<"a", "d", "d">>, <<"a", "n", "d">>} ->
           LET op == IF text = <<"a", "d", "d">> THEN JsShl(1, 12) ELSE JsShl(5, 12)
               regs == JsOr(JsOr(op, JsShl(registerToBin(a[1]), 9)),
                            JsShl(registerToBin(a[2]), 6))
           IN  IF a[3].type = "REGISTER"
               THEN <<JsOr(regs, registerToBin(a[3]))>>
               ELSE <<JsOr(JsOr(regs, JsShl(1, 5)),
                           numToBin(numLitToInt(a[3].text), 5))>>
      [] text = <<"n", "o", "t">> ->
           <<JsOr(JsOr(JsShl(9, 12), JsShl(registerToBin(a[1]), 9)),
                  JsShl(registerToBin(a[2]), 6))>>
      [] text \in {<<"l", "d">>, <<"l", "d", "i">>, <<"s", "t">>,
                   <<"s", "t", "i">>, <<"l", "e", "a">>} ->
           LET op == CASE text = <<"l", "d">> -> JsShl(2, 12)
                       [] text = <<"l", "d", "i">> -> JsShl(10, 12)
                       [] text = <<"l", "e", "a">> -> JsShl(14, 12)
                       [] text = <<"s", "t">> -> JsShl(3, 12)
                       [] text = <<"s", "t", "i">> -> JsShl(11, 12)
           IN  <<JsOr(JsOr(op, JsShl(registerToBin(a[1]), 9)),
                      labelOrNumToBin(a[2], lc, 9, FALSE, st))>>
      [] text \in {<<"s", "t", "r">>, <<"l", "d", "r">>} ->
           LET op == IF text = <<"l", "d", "r">> THEN JsShl(6, 12) ELSE JsShl(7, 12)
           IN  <<JsOr(JsOr(JsOr(op, JsShl(registerToBin(a[1]), 9)),
                           JsShl(registerToBin(a[2]), 6)),
                      labelOrNumToBin(a[3], lc, 6, FALSE, st))>>
      [] text = <<"t", "r", "a", "p">> ->
           <<JsOr(JsShl(15, 12), numToBin(numLitToInt(a[1].text), 12))>>
      [] text = <<"g", "e", "t", "c">> -> <<61472>>
      [] text = <<"o", "u", "t">> -> <<61473>>
      [] text = <<"p", "u", "t", "s">> -> <<61474>>
      [] text = <<"i", "n">> -> <<61475>>
      [] text = <<"p", "u", "t", "s", "p">> -> <<61476>>
      [] text = <<"h", "a", "l", "t">> -> <<61477>>
      [] text = <<"j", "m", "p">> -> <<>>
      [] text = <<"r", "e", "t">> -> <<49600>>
      [] text = <<"r", "t", "i">> -> <<32768>>
      [] text = <<"j", "s", "r">> ->
           <<JsOr(JsOr(JsShl(4, 12), JsShl(1, 11)),
                  labelOrNumToBin(a[1], lc, 11, FALSE, st))>>
      [] text = <<"j", "s", "r", "r">> ->
           <<JsOr(JsShl(4, 12), JsShl(registerToBin(a[1]), 6))>>
      [] IsBranch(text) ->
           LET n == IF Contains(text, "n") THEN 4 ELSE 0
               z == IF Contains(text, "z") THEN 2 ELSE 0
               p == IF Contains(text, "p") THEN 1 ELSE 0
               mask == IF JsOr(JsOr(n, z), p) = 0 THEN 7 ELSE JsOr(JsOr(n, z), p)
           IN  <<JsOr(JsOr(JsShl(0, 12), JsShl(mask, 9)),
                      labelOrNumToBin(a[1], lc, 9, FALSE, st))>>
      [] OTHER -> <<>>

\* one iteration of passTwo's while loop
passTwoIter(tl, ti, st, mc, lc) ==
    LET token == tl[ti + 1]
        e == expectTokens(tl, ti,
                          IF token.type = "OPCODE" THEN operandsOf(token.text)
                          ELSE directiveOperands(token.type), <<>>)
        num == numLitToInt(e.toks[1].text)
        mc1 == CASE token.type = "BLKW" -> pushZeros(mc, 0, num)
                 [] token.type = "STRINGZ" ->
                      Append(pushChars(mc, e.toks[1].text, 1), 0)
                 [] token.type = "ORIG" -> origHeader(mc, lc, num)
                 [] token.type = "FILL" ->
                      Append(mc, labelOrNumToBin(e.toks[1], lc, 16, FALSE, st))
                 [] token.type = "OPCODE" ->
                      mc \o encode(token.text, e.toks, NumAdd(lc, 1), st)
                 [] OTHER -> mc
        lc1 == CASE token.type = "BLKW" -> NumAdd(lc, num)
                 [] token.type = "STRINGZ" -> NumAdd(lc, Len(e.toks[1].text) + 1)
                 [] token.type = "ORIG" -> num
                 [] token.type = "END" -> NaN
                 [] token.type = "FILL" -> NumAdd(lc, 1)
                 [] token.type = "OPCODE" -> NumAdd(lc, 1)
                 [] OTHER -> lc
    IN  IF token.type \notin StatementTypes \/ ~e.ok
        THEN [ok |-> FALSE, ti |-> ti, mc |-> mc, lc |-> lc]
        ELSE [ok |-> TRUE, ti |-> e.ti + 1, mc |-> mc1, lc |-> lc1]

(***************************************************************************)
(* SpecAsm: Assembler.loadProgram on the token list the lexer returns for  *)
(* a program that opens with .ORIG <number> and goes on with up to         *)
(* MaxStmts fragments.  passOne and passTwo advance one loop iteration at  *)
(* a time; a throw ends loadProgram.                                       *)
(***************************************************************************)
MaxStmts == 2

Tok(type, text) == [type |-> type, text |-> text]

NewLine == Tok("NEW_LINE", <<"\n">>)

Eof == Tok("EOF", <<>>)

LabelA == Tok("LABEL", <<"A">>)

LabelB == Tok("LABEL", <<"B">>)

Reg(d) == Tok("REGISTER", <<"r", d>>)

Opc(text) == Tok("OPCODE", text)

AsmOrigins ==
    {Tok("HEX", <<"x", "3", "0", "0", "0">>), Tok("DECIMAL", <<"#", "-", "1">>),
     Tok("HEX", <<"x", "1", "3", "0", "0", "0">>)}

AsmFragments ==
    { <<LabelA>>,
      <<LabelB>>,
      <<Opc(<<"l", "d">>), Reg("1"), LabelA>>,
      <<Opc(<<"l", "d", "i">>), Reg("2"), LabelB>>,
      <<Opc(<<"s", "t">>), Reg("3"), LabelA>>,
      <<Opc(<<"s", "t", "i">>), Reg("4"), LabelB>>,
      <<Opc(<<"l", "e", "a">>), Reg("0"), LabelB>>,
      <<Opc(<<"b", "r", "z">>), LabelA>>,
      <<Opc(<<"b", "r", "n", "p">>), LabelB>>,
      <<Opc(<<"j", "s", "r">>), LabelA>>,
      <<Opc(<<"j", "s", "r">>), LabelB>>,
      <<Tok("FILL", <<".", "f", "i", "l", "l">>), LabelA>>,
      <<Tok("FILL", <<".", "f", "i", "l", "l">>), LabelB>>,
      <<Tok("FILL", <<".", "f", "i", "l", "l">>), Tok("HEX", <<"x", "-", "1">>),
        LabelB>>,
      <<LabelA, Tok("BLKW", <<".", "b", "l", "k", "w">>),
        Tok("DECIMAL", <<"#", "2">>)>>,
      <<LabelB, Tok("STRINGZ", <<".", "s", "t", "r", "i", "n", "g", "z">>),
        Tok("STRING", <<"H", "i">>)>>,
      <<Opc(<<"a", "d", "d">>), Reg("1"), Reg("2"), Tok("DECIMAL", <<"#", "3">>)>>,
      <<Opc(<<"a", "d", "d">>), Reg("1"), Reg("2"),
        Tok("DECIMAL", <<"#", "4", "0">>)>>,
      <<Opc(<<"n", "o", "t">>), Reg("4"), Reg("5")>>,
      <<Opc(<<"l", "d", "r">>), Reg("1"), Reg("6"), Tok("BINARY", <<"b", "-", "1">>)>>,
      <<Opc(<<"j", "m", "p">>), Reg("3")>>,
      <<Opc(<<"h", "a", "l", "t">>)>>,
      <<Tok("END", <<".", "e", "n", "d">>)>>,
      <<Tok("ORIG", <<".", "o", "r", "i", "g">>),
        Tok("HEX", <<"x", "4", "0", "0", "0">>)>>,
      <<Tok("ORIG", <<".", "o", "r", "i", "g">>),
        Tok("HEX", <<"x", "4", "0", "0", "0">>), LabelA>>,
      <<Opc(<<"t", "r", "a", "p">>), Tok("DECIMAL", <<"#", "-", "1">>)>>,
      <<Opc(<<"t", "r", "a", "p">>), Tok("HEX", <<"x", "2", "5">>)>>,
      <<Tok("BLKW", <<".", "b", "l", "k", "w">>), Tok("DECIMAL", <<"#", "-", "1">>)>>,
      <<Opc(<<"r", "e", "t">>)>>,
      <<Tok("END", <<".", "e", "n", "d">>), LabelA>>,
      <<Opc(<<"s", "t", "r">>), Reg("0"), Reg("6"), LabelB>> }

RECURSIVE Flatten(_)
Flatten(frags) ==
    IF frags = <<>> THEN <<>> ELSE Head(frags) \o Flatten(Tail(frags))

AsmPrograms ==
    { <<Tok("ORIG", <<".", "o", "r", "i", "g">>), o, NewLine>> \o Flatten(fs) \o <<Eof>> :
        o \in AsmOrigins,
        fs \in UNION {[1 .. n -> AsmFragments] : n \in 0 .. MaxStmts} }

noSymbols == [t \in {} |-> NaN]

\* this.tokenList = this.lexer.tokenize(program); passOne's first lines
InitAsm ==
    /\ lexInput = <<>>
    /\ currentPosition = 0
    /\ calls = 1
    /\ tokenList \in AsmPrograms
    /\ tokenIndex = 0
    /\ symbolTable = noSymbols
    /\ machineCode = <<>>
    /\ locationCounter = NaN
    /\ asmPc = "passOne"
    /\ CpuIdle
    /\ image = <<>>
    /\ SeIdle

\* passOne: one iteration of the while loop
PassOneStep ==
    /\ asmPc = "passOne"
    /\ tokenList[tokenIndex + 1].type # "EOF"
    /\ \E r \in {passOneIter(tokenList, tokenIndex, symbolTable, locationCounter)} :
          /\ tokenIndex' = r.ti
          /\ symbolTable' = r.st
          /\ locationCounter' = r.lc
          /\ asmPc' = IF r.ok THEN "passOne" ELSE "error"
    /\ UNCHANGED <<lexVars, calls, tokenList, machineCode, cpuVars, image, se>>

\* passOne returns the symbol table; passTwo's first lines
PassOneReturn ==
    /\ asmPc = "passOne"
    /\ tokenList[tokenIndex + 1].type = "EOF"
    /\ tokenIndex' = 0
    /\ machineCode' = <<>>
    /\ locationCounter' = NaN
    /\ asmPc' = "passTwo"
    /\ UNCHANGED <<lexVars, calls, tokenList, symbolTable, cpuVars, image, se>>

\* passTwo: one iteration of the while loop
PassTwoStep ==
    /\ asmPc = "passTwo"
    /\ tokenList[tokenIndex + 1].type # "EOF"
    /\ \E r \in {passTwoIter(tokenList, tokenIndex, symbolTable, machineCode,
                             locationCounter)} :
          /\ tokenIndex' = r.ti
          /\ machineCode' = r.mc
          /\ locationCounter' = r.lc
          /\ asmPc' = IF r.ok THEN "passTwo" ELSE "error"
    /\ UNCHANGED <<lexVars, calls, tokenList, symbolTable, cpuVars, image, se>>

\* passTwo returns the machine code; loadProgram returns
PassTwoReturn ==
    /\ asmPc = "passTwo"
    /\ tokenList[tokenIndex + 1].type = "EOF"
    /\ asmPc' = "done"
    /\ UNCHANGED <<lexVars, calls, tokenList, tokenIndex, symbolTable, machineCode,
                   locationCounter, cpuVars, image, se>>

NextAsm == PassOneStep \/ PassOneReturn \/ PassTwoStep \/ PassTwoReturn

SpecAsm == InitAsm /\ [][NextAsm]_vars

AsmTypeOK ==
    /\ tokenIndex \in 0 .. (Len(tokenList) - 1)
    /\ asmPc \in {"passOne", "passTwo", "done", "error"}
    /\ \A i \in 1 .. Len(machineCode) : machineCode[i] \in 0 .. 65535
    /\ \A t \in DOMAIN symbolTable : symbolTable[t] = NaN \/ symbolTable[t] > NaN

(***************************************************************************)
(* Properties of the assembler                                             *)
(***************************************************************************)
\* the value written as the operand of the program's opening .ORIG
FirstOrigValue ==
    CASE tokenList[2].text = <<"x", "3", "0", "0", "0">> -> 12288
      [] tokenList[2].text = <<"#", "-", "1">> -> -1
      [] tokenList[2].text = <<"x", "1", "3", "0", "0", "0">> -> 77824

\* C6: when loadProgram has returned for a program that opens with
\* .ORIG <number>, the word vector is not empty and its first word is that
\* number reduced to 16 bits, whatever fragments follow.
C6_FirstWordIsOrigin ==
    asmPc = "done" =>
        /\ Len(machineCode) >= 1
        /\ machineCode[1] = FirstOrigValue % 65536

\* a program with origin #-1 and further words has been assembled
C6_Witness ==
    /\ asmPc = "done"
    /\ tokenList[2].text = <<"#", "-", "1">>
    /\ Len(tokenList) > 4
    /\ Len(machineCode) >= 3
    /\ machineCode[1] = 65535

PcRelativeLoads ==
    {<<"l", "d">>, <<"l", "d", "i">>, <<"s", "t">>, <<"s", "t", "i">>,
     <<"l", "e", "a">>}

\* the token at index i (counted from 0) is an instruction whose operand is a
\* label; RefLabel(i) is that label and RefBits(i) the width of the field
RefOperand(i) ==
    IF tokenList[i + 1].text \in PcRelativeLoads THEN tokenList[i + 3]
    ELSE tokenList[i + 2]

IsLabelRef(i) ==
    /\ i >= 0
    /\ i + 3 <= Len(tokenList)
    /\ tokenList[i + 1].type = "OPCODE"
    /\ \/ tokenList[i + 1].text \in PcRelativeLoads
       \/ IsBranch(tokenList[i + 1].text)
       \/ tokenList[i + 1].text = <<"j", "s", "r">>
    /\ RefOperand(i).type = "LABEL"

RefLabel(i) == RefOperand(i).text

RefBits(i) == IF tokenList[i + 1].text = <<"j", "s", "r">> THEN 11 ELSE 9

Defined(label) == label \in DOMAIN symbolTable /\ symbolTable[label] # NaN

\* C7: a pass-2 iteration that assembles LD, LDI, LEA, ST, STI, BR* or JSR
\* with a label operand, at a numeric location counter LC and with the label
\* bound to a numeric address, pushes one word whose low 9 (11 for JSR) bits
\* are (symbols[label] - (LC + 1)) in two's complement of that width.
C7_LabelOffset ==
    [][(/\ asmPc = "passTwo"
        /\ asmPc' = "passTwo"
        /\ IsLabelRef(tokenIndex)
        /\ Defined(RefLabel(tokenIndex))
        /\ locationCounter # NaN)
       => /\ Len(machineCode') = Len(machineCode) + 1
          /\ machineCode'[Len(machineCode')] % Pow2(RefBits(tokenIndex))
                = (symbolTable[RefLabel(tokenIndex)] - (locationCounter + 1))
                     % Pow2(RefBits(tokenIndex))]_vars

\* pass 2 has just assembled "ld r1, A" three words after A (a backward
\* reference: offset -3) ...
C7_Witness ==
    /\ asmPc = "passTwo"
    /\ tokenIndex >= 3
    /\ IsLabelRef(tokenIndex - 3)
    /\ tokenList[tokenIndex - 2].text = <<"l", "d">>
    /\ Defined(<<"A">>)
    /\ locationCounter # NaN
    /\ symbolTable[<<"A">>] - locationCounter = -3
    /\ machineCode[Len(machineCode)] = 8704 + 509

\* ... and "jsr B" one word ahead of B (a forward reference: offset 1)
C7_WitnessForward ==
    /\ asmPc = "passTwo"
    /\ tokenIndex >= 2
    /\ IsLabelRef(tokenIndex - 2)
    /\ tokenList[tokenIndex - 1].text = <<"j", "s", "r">>
    /\ Defined(<<"B">>)
    /\ locationCounter # NaN
    /\ symbolTable[<<"B">>] - locationCounter = 1
    /\ machineCode[Len(machineCode)] = 18432 + 1

IsLabelFill(i) ==
    /\ i + 2 <= Len(tokenList)
    /\ tokenList[i + 1].type = "FILL"
    /\ tokenList[i + 2].type = "LABEL"

\* C8: a pass-2 iteration that assembles .FILL with a label operand bound to
\* a numeric address pushes that address, reduced to 16 bits, whatever the
\* location counter is.
C8_FillIsAbsolute ==
    [][(/\ asmPc = "passTwo"
        /\ asmPc' = "passTwo"
        /\ IsLabelFill(tokenIndex)
        /\ Defined(tokenList[tokenIndex + 2].text))
       => /\ Len(machineCode') = Len(machineCode) + 1
          /\ machineCode'[Len(machineCode')]
                = symbolTable[tokenList[tokenIndex + 2].text] % 65536]_vars

\* C8, as the code has it: what the .FILL case pushes is the label's address
\* less the location counter of the .FILL itself, reduced to 16 bits
C8_FillIsRelative ==
    [][(/\ asmPc = "passTwo"
        /\ asmPc' = "passTwo"
        /\ IsLabelFill(tokenIndex)
        /\ Defined(tokenList[tokenIndex + 2].text)
        /\ locationCounter # NaN)
       => /\ Len(machineCode') = Len(machineCode) + 1
          /\ machineCode'[Len(machineCode')]
                = (symbolTable[tokenList[tokenIndex + 2].text] - locationCounter)
                     % 65536]_vars

\* ".orig x3000 / A .fill A": pass 2 has pushed 0 for the .FILL, not x3000
C8_Witness ==
    /\ asmPc = "passTwo"
    /\ tokenIndex >= 2
    /\ IsLabelFill(tokenIndex - 2)
    /\ tokenList[tokenIndex].text = <<"A">>
    /\ Defined(<<"A">>)
    /\ symbolTable[<<"A">>] = 12288
    /\ locationCounter = 12289
    /\ machineCode = <<12288, 0>>

(***************************************************************************)
(* The lexer (src/src/assembler/lexer.ts).  The source text is a sequence  *)
(* of characters, a character being a one-character string ("NUL" and      *)
(* "ESC" stand for the characters of code 0 and 27); positions count from  *)
(* 0 as in the code and input[i] past the end is undefined.                *)
(***************************************************************************)
UndefChar == ""

CharAt(inp, i) == IF i >= 0 /\ i < Len(inp) THEN inp[i + 1] ELSE UndefChar

UpperLetters ==
    <<"A", "B", "C", "D", "E", "F", "G", "H", "I", "J", "K", "L", "M",
      "N", "O", "P", "Q", "R", "S", "T", "U", "V", "W", "X", "Y", "Z">>

LowerLetters ==
    <<"a", "b", "c", "d", "e", "f", "g", "h", "i", "j", "k", "l", "m",
      "n", "o", "p", "q", "r", "s", "t", "u", "v", "w", "x", "y", "z">>

\* String.prototype.toLowerCase on one character, and on a text
toLowerCase(c) ==
    IF \E i \in 1 .. 26 : UpperLetters[i] = c
    THEN LowerLetters[CHOOSE i \in 1 .. 26 : UpperLetters[i] = c]
    ELSE c

lowerText(text) == [i \in 1 .. Len(text) |-> toLowerCase(text[i])]

OPCODES ==
    {<<"a", "d", "d">>, <<"a", "n", "d">>, <<"n", "o", "t">>, <<"l", "d">>,
     <<"l", "d", "r">>, <<"l", "d", "i">>, <<"s", "t">>, <<"s", "t", "r">>,
     <<"s", "t", "i">>, <<"l", "e", "a">>, <<"t", "r", "a", "p">>,
     <<"h", "a", "l", "t">>, <<"g", "e", "t", "c">>, <<"o", "u", "t">>,
     <<"p", "u", "t", "s">>, <<"i", "n">>, <<"p", "u", "t", "s", "p">>,
     <<"j", "m", "p">>, <<"r", "e", "t">>, <<"r", "t", "i">>, <<"j", "s", "r">>,
     <<"j", "s", "r", "r">>, <<"b", "r">>, <<"b", "r", "z">>, <<"b", "r", "p">>,
     <<"b", "r", "n">>, <<"b", "r", "n", "z">>, <<"b", "r", "n", "p">>,
     <<"b", "r", "z", "p">>, <<"b", "r", "n", "z", "p">>}

REGISTER_NAMES ==
    {<<"r", "0">>, <<"r", "1">>, <<"r", "2">>, <<"r", "3">>, <<"r", "4">>,
     <<"r", "5">>, <<"r", "6">>, <<"r", "7">>}

TOKEN_MATCHERS ==
    <<[key |-> <<".", "o", "r", "i", "g">>, type |-> "ORIG"],
      [key |-> <<".", "f", "i", "l", "l">>, type |-> "FILL"],
      [key |-> <<".", "s", "t", "r", "i", "n", "g", "z">>, type |-> "STRINGZ"],
      [key |-> <<".", "b", "l", "k", "w">>, type |-> "BLKW"],
      [key |-> <<".", "e", "n", "d">>, type |-> "END"]>>

HexDigits == {Digits[i] : i \in 1 .. 16}

\* a regular expression ^p-?[digits]+$ of NUMBER_MATCHERS
MatchesNumber(text, prefix, digits) ==
    LET rest == IF Len(text) >= 2 /\ text[2] = "-"
                THEN SubSeq(text, 3, Len(text))
                ELSE SubSeq(text, 2, Len(text))
    IN  /\ Len(text) >= 1
        /\ text[1] = prefix
        /\ Len(rest) >= 1
        /\ \A i \in 1 .. Len(rest) : rest[i] \in digits

\* the first of NUMBER_MATCHERS that matches, or "LABEL"
numberType(text) ==
    IF MatchesNumber(text, "x", HexDigits) THEN "HEX"
    ELSE IF MatchesNumber(text, "b", {"0", "1"}) THEN "BINARY"
    ELSE IF MatchesNumber(text, "#", {Digits[i] : i \in 1 .. 10}) THEN "DECIMAL"
    ELSE "LABEL"

\* Lexer.isTokenSeparator
isTokenSeparator(char) == char \in {" ", "\t", "\n", "\r", UndefChar, ",", ";"}

\* tokenize's lookaheadString at position pos
lookaheadString(inp, pos, str) ==
    \A i \in 1 .. Len(str) :
        /\ CharAt(inp, pos + i - 1) # UndefChar
        /\ str[i] = toLowerCase(CharAt(inp, pos + i - 1))

\* while (input[currentPosition] === "\n") currentPosition++
RECURSIVE skipNewLines(_, _)
skipNewLines(inp, pos) ==
    IF CharAt(inp, pos) = "\n" THEN skipNewLines(inp, pos + 1) ELSE pos

\* the comment is seen but the position is left where it is
skipComment_stay(inp, pos) == pos

\* while (input[currentPosition] !== "\n" && ... !== undefined) currentPosition++
RECURSIVE skipComment(_, _)
skipComment(inp, pos) ==
    IF CharAt(inp, pos) # "\n" /\ CharAt(inp, pos) # UndefChar
    THEN skipComment(inp, pos + 1)
    ELSE pos

\* the for loop over TOKEN_MATCHERS: it has no break
RECURSIVE matchLoop(_, _, _, _, _)
matchLoop(inp, pos, o, k, didMatch) ==
    IF k > Len(TOKEN_MATCHERS) THEN [pos |-> pos, out |-> o, didMatch |-> didMatch]
    ELSE IF lookaheadString(inp, pos, TOKEN_MATCHERS[k].key)
    THEN matchLoop(inp, pos + Len(TOKEN_MATCHERS[k].key),
                   Append(o, [type |-> TOKEN_MATCHERS[k].type,
                              text |-> TOKEN_MATCHERS[k].key]),
                   k + 1, TRUE)
    ELSE matchLoop(inp, pos, o, k + 1, didMatch)

\* the object literal of escapes, indexed by escapeSequence; undefined for
\* any other character
escapedOf(escapeSequence) ==
    CASE escapeSequence = "0" -> "NUL"
      [] escapeSequence = "n" -> "\n"
      [] escapeSequence = "r" -> "\r"
      [] escapeSequence = "\"" -> "\""
      [] escapeSequence = "\\" -> "\\"
      [] escapeSequence = "e" -> "ESC"
      [] OTHER -> UndefChar

\* if (escapeSequence === undefined) throw
escapeThrows(escapeSequence) == escapeSequence = UndefChar

\* the while loop of a string literal, from the character after the opening
\* quote; an undefined element of stringLiteralChars is kept as UndefChar
RECURSIVE stringLoop(_, _, _)
stringLoop(inp, pos, chars) ==
    LET here == CharAt(inp, pos)
        escapeSequence == CharAt(inp, pos + 1)
    IN  IF here = "\"" \/ here = UndefChar \/ here = "\n"
        THEN [ok |-> TRUE, pos |-> pos, chars |-> chars]
        ELSE IF here = "\\"
        THEN IF escapeThrows(escapeSequence)
             THEN [ok |-> FALSE, pos |-> pos + 1, chars |-> chars]
             ELSE stringLoop(inp, pos + 2, Append(chars, escapedOf(escapeSequence)))
        ELSE stringLoop(inp, pos + 1, Append(chars, here))

\* Array.prototype.join(""): an undefined element contributes nothing
RECURSIVE join(_)
join(chars) ==
    IF chars = <<>> THEN <<>>
    ELSE IF Head(chars) = UndefChar THEN join(Tail(chars))
    ELSE <<Head(chars)>> \o join(Tail(chars))

\* while (!isTokenSeparator(input[currentPosition])) literal += ...
RECURSIVE literalLoop(_, _, _)
literalLoop(inp, pos, literal) ==
    IF ~isTokenSeparator(CharAt(inp, pos))
    THEN literalLoop(inp, pos + 1, Append(literal, CharAt(inp, pos)))
    ELSE [pos |-> pos, literal |-> literal]

\* the token made of a literal
literalToken(literal) ==
    LET lowerCaseLiteral == lowerText(literal)
    IN  IF lowerCaseLiteral \in OPCODES
        THEN [type |-> "OPCODE", text |-> lowerCaseLiteral]
        ELSE IF lowerCaseLiteral \in REGISTER_NAMES
        THEN [type |-> "REGISTER", text |-> lowerCaseLiteral]
        ELSE IF numberType(lowerCaseLiteral) # "LABEL"
        THEN [type |-> numberType(lowerCaseLiteral), text |-> lowerCaseLiteral]
        ELSE [type |-> "LABEL", text |-> literal]

\* one iteration of tokenize's while (currentPosition < input.length)
tokenizeIter(inp, pos, o) ==
    LET currentToken == CharAt(inp, pos)
        m == matchLoop(inp, pos, o, 1, FALSE)
        str == stringLoop(inp, pos + 1, <<>>)
        lit == literalLoop(inp, pos + 1, <<currentToken>>)
    IN  IF isTokenSeparator(currentToken) /\ currentToken # "\n"
           /\ currentToken # UndefChar /\ currentToken # ";"
        THEN [ok |-> TRUE, pos |-> pos + 1, out |-> o]
        ELSE IF currentToken = "\n"
        THEN [ok |-> TRUE, pos |-> skipNewLines(inp, pos),
              out |-> Append(o, [type |-> "NEW_LINE", text |-> <<"\n">>])]
        ELSE IF currentToken = ";"
        THEN [ok |-> TRUE, pos |-> skipComment(inp, pos), out |-> o]
        ELSE IF m.didMatch
        THEN [ok |-> TRUE, pos |-> m.pos, out |-> m.out]
        ELSE IF currentToken = "\""
        THEN IF str.ok
             THEN [ok |-> TRUE, pos |-> str.pos + 1,
                   out |-> Append(o, [type |-> "STRING", text |-> join(str.chars)])]
             ELSE [ok |-> FALSE, pos |-> str.pos, out |-> o]
        ELSE [ok |-> TRUE, pos |-> lit.pos, out |-> Append(o, literalToken(lit.literal))]

(***************************************************************************)
(* SpecLex: Lexer.tokenize on every text made of up to MaxChunks pieces,   *)
(* one iteration of the outer while loop at a time.  tokenize is a         *)
(* sequential loop: an iteration that can be taken is taken.               *)
(***************************************************************************)
MaxChunks == 2

LexChunks ==
    { <<" ">>, <<"\n">>, <<";">>, <<"\"">>, <<"\\">>,
      <<"\\", "q">>, <<"\\", "n">>, <<"x", "3">>, <<"#", "-", "1">>,
      <<".", "o", "r", "i", "g">>, <<".", "F", "I", "L", "L">>,
      <<"a", "d", "d">>, <<"R", "1">>, <<"b", "1">>, <<"L", "p">> }

LexInputs ==
    { Flatten(cs) : cs \in UNION {[1 .. n -> LexChunks] : n \in 0 .. MaxChunks} }

\* new Lexer()
InitLex ==
    /\ lexInput = <<>>
    /\ currentPosition = 0
    /\ calls = 0
    /\ tokenList = <<>>
    /\ tokenIndex = 0
    /\ symbolTable = <<>>
    /\ machineCode = <<>>
    /\ locationCounter = 0
    /\ asmPc = "new"
    /\ CpuIdle
    /\ image = <<>>
    /\ SeIdle

\* lexer.tokenize(program): const out = []; let currentPosition = 0
Tokenize ==
    /\ asmPc = "new"
    /\ lexInput' \in LexInputs
    /\ currentPosition' = 0
    /\ calls' = 1
    /\ tokenList' = <<>>
    /\ asmPc' = "tokenize"
    /\ UNCHANGED <<tokenIndex, symbolTable, machineCode, locationCounter,
                   cpuVars, image, se>>

\* one iteration of while (currentPosition < input.length); a throw ends it
TokenizeStep ==
    /\ asmPc = "tokenize"
    /\ currentPosition < Len(lexInput)
    /\ \E r \in {tokenizeIter(lexInput, currentPosition, tokenList)} :
          /\ currentPosition' = r.pos
          /\ tokenList' = r.out
          /\ asmPc' = IF r.ok THEN "tokenize" ELSE "error"
    /\ UNCHANGED <<lexInput, calls, tokenIndex, symbolTable, machineCode,
                   locationCounter, cpuVars, image, se>>

\* out.push({type: EOF, text: ""}); return out
TokenizeReturn ==
    /\ asmPc = "tokenize"
    /\ currentPosition >= Len(lexInput)
    /\ tokenList' = Append(tokenList, Eof)
    /\ asmPc' = "lexed"
    /\ UNCHANGED <<lexVars, calls, tokenIndex, symbolTable, machineCode,
                   locationCounter, cpuVars, image, se>>

NextLex == Tokenize \/ TokenizeStep \/ TokenizeReturn

SpecLex == InitLex /\ [][NextLex]_vars /\ WF_vars(NextLex)

LexTypeOK ==
    /\ asmPc \in {"new", "tokenize", "lexed", "error"}
    /\ currentPosition \in 0 .. (Len(lexInput) + 1)
    /\ \A i \in 1 .. Len(tokenList) :
          tokenList[i].type \in StatementTypes \cup NUMBER_TYPES
                                   \cup {"REGISTER", "STRING", "EOF"}

\* C12: tokenize ends, by returning or by a lex error; every iteration of its
\* loop that does not throw moves the position forward; and the sequence it
\* returns has EOF as its last token and nowhere else.
C12_TokenizeTerminates ==
    /\ <>(asmPc \in {"lexed", "error"})
    /\ [][(asmPc = "tokenize" /\ asmPc' = "tokenize")
             => currentPosition' > currentPosition]_vars
    /\ [](asmPc = "lexed"
            => /\ Len(tokenList) >= 1
               /\ \A i \in 1 .. Len(tokenList) :
                     (tokenList[i].type = "EOF") <=> (i = Len(tokenList)))

\* C12 witness: `.origx3` has been read to its end: ORIG, HEX x3 and then EOF
C12_Witness ==
    /\ asmPc = "lexed"
    /\ currentPosition = 7
    /\ Len(tokenList) = 3
    /\ tokenList[1].type = "ORIG"
    /\ tokenList[2] = [type |-> "HEX", text |-> <<"x", "3">>]
    /\ tokenList[3].type = "EOF"

\* the iteration starts at the opening quote of a string literal whose first
\* character is a backslash followed by a character that is no escape
BadEscapeAhead ==
    /\ asmPc = "tokenize"
    /\ CharAt(lexInput, currentPosition) = "\""
    /\ CharAt(lexInput, currentPosition + 1) = "\\"
    /\ CharAt(lexInput, currentPosition + 2)
          \notin {"0", "n", "r", "\"", "\\", "e", UndefChar}

\* C13: an iteration that reads a string literal in which a backslash is
\* followed by a character other than 0, n, r, ", \ or e throws a lex error
\* and pushes no STRING token.
C13_BadEscapeIsError ==
    [][BadEscapeAhead => (asmPc' = "error" /\ tokenList' = tokenList)]_vars

\* C13 witness: the text "\q has been read without an error: it gave a STRING
\* token of no characters
C13_Witness ==
    /\ asmPc = "lexed"
    /\ lexInput = <<"\"", "\\", "q">>
    /\ tokenList = <<[type |-> "STRING", text |-> <<>>], Eof>>

(***************************************************************************)
(* Properties of the assembler, continued                                  *)
(***************************************************************************)
\* the signed offset of the label reference at token i, assembled at the
\* current location counter
RefOffset(i) == symbolTable[RefLabel(i)] - (locationCounter + 1)

\* pass 2 is about to assemble a label reference whose offset does not fit
\* in the signed field
FarRefAhead ==
    /\ asmPc = "passTwo"
    /\ IsLabelRef(tokenIndex)
    /\ Defined(RefLabel(tokenIndex))
    /\ locationCounter # NaN
    /\ \/ RefOffset(tokenIndex) < -Pow2(RefBits(tokenIndex) - 1)
       \/ RefOffset(tokenIndex) >= Pow2(RefBits(tokenIndex) - 1)

\* C14: a pass-2 iteration that assembles a label reference whose offset
\* symbols[label] - (LC + 1) is outside the signed range of its field (9 bits,
\* 11 for JSR) is fatal and pushes no word.
C14_FarLabelIsFatal ==
    [][FarRefAhead => (asmPc' = "error" /\ machineCode' = machineCode)]_vars

\* C14 witness: ".orig x3000 / jsr A / .orig x4000 / A": the jsr, 4095 words
\* short of A, has been assembled into x4FFF, a jsr to the word before itself
C14_Witness ==
    /\ asmPc = "passTwo"
    /\ tokenIndex = 5
    /\ tokenList[4].text = <<"j", "s", "r">>
    /\ Defined(<<"A">>)
    /\ symbolTable[<<"A">>] = 16384
    /\ locationCounter = 12289
    /\ machineCode = <<12288, 20479>>

\* the value of the literals that the programs use as a TRAP operand
TrapOperandValue(text) ==
    CASE text = <<"#", "-", "1">> -> -1
      [] text = <<"x", "2", "5">> -> 37

\* a pass is about to read a TRAP statement whose vector is negative
NegativeTrapAhead ==
    /\ asmPc \in {"passOne", "passTwo"}
    /\ tokenIndex + 2 <= Len(tokenList)
    /\ tokenList[tokenIndex + 1] = Opc(<<"t", "r", "a", "p">>)
    /\ tokenList[tokenIndex + 2].type \in NUMBER_TYPES
    /\ TrapOperandValue(tokenList[tokenIndex + 2].text) < 0

\* C15: an iteration of either pass that reads TRAP with a negative vector is
\* fatal, and pass 2 pushes no word for it.
C15_NegativeTrapIsFatal ==
    [][NegativeTrapAhead => (asmPc' = "error" /\ machineCode' = machineCode)]_vars

\* C15 witness: ".orig x3000 / trap #-1" has been assembled into xFFFF
C15_Witness ==
    /\ asmPc = "done"
    /\ tokenList[4] = Opc(<<"t", "r", "a", "p">>)
    /\ tokenList[5].text = <<"#", "-", "1">>
    /\ machineCode = <<12288, 65535>>

(***************************************************************************)
(* SpecAgain: loadProgram called a second time on the same Assembler,      *)
(* after a first call that returned or threw.  passOne and passTwo as      *)
(* functions of the token list give what a new Assembler returns.          *)
(***************************************************************************)
MaxAgainStmts == 2

\* Assembler.passOne(tokenList) from a given iteration on
RECURSIVE passOneFrom(_, _, _, _)
passOneFrom(tl, ti, st, lc) ==
    IF tl[ti + 1].type = "EOF" THEN [ok |-> TRUE, st |-> st]
    ELSE LET r == passOneIter(tl, ti, st, lc)
         IN  IF r.ok THEN passOneFrom(tl, r.ti, r.st, r.lc)
             ELSE [ok |-> FALSE, st |-> st]

\* Assembler.passTwo(tokenList, symbolTable) from a given iteration on
RECURSIVE passTwoFrom(_, _, _, _, _)
passTwoFrom(tl, ti, st, mc, lc) ==
    IF tl[ti + 1].type = "EOF" THEN [ok |-> TRUE, mc |-> mc]
    ELSE LET r == passTwoIter(tl, ti, st, mc, lc)
         IN  IF r.ok THEN passTwoFrom(tl, r.ti, st, r.mc, r.lc)
             ELSE [ok |-> FALSE, mc |-> mc]

\* new Assembler().loadProgram(program), program being lexed into tl
loadProgram(tl) ==
    LET one == passOneFrom(tl, 0, noSymbols, NaN)
        two == passTwoFrom(tl, 0, one.st, <<>>, NaN)
    IN  IF ~one.ok THEN [ok |-> FALSE, st |-> noSymbols, mc |-> <<>>]
        ELSE [ok |-> two.ok, st |-> one.st, mc |-> two.mc]

Prog(o, fs) ==
    <<Tok("ORIG", <<".", "o", "r", "i", "g">>), o, NewLine>> \o Flatten(fs) \o <<Eof>>

\* the programs of the first call: one that defines A and B and returns, one
\* that returns after a trailing label, one that throws in pass 1 after it
\* has defined A
PriorPrograms ==
    { Prog(Tok("HEX", <<"x", "3", "0", "0", "0">>),
           <<<<LabelA, Tok("BLKW", <<".", "b", "l", "k", "w">>),
               Tok("DECIMAL", <<"#", "2">>)>>,
             <<LabelB, Tok("STRINGZ", <<".", "s", "t", "r", "i", "n", "g", "z">>),
               Tok("STRING", <<"H", "i">>)>>>>),
      Prog(Tok("HEX", <<"x", "3", "0", "0", "0">>),
           <<<<Opc(<<"h", "a", "l", "t">>)>>, <<LabelB>>, <<LabelA>>>>),
      Prog(Tok("DECIMAL", <<"#", "-", "1">>),
           <<<<LabelA>>,
             <<Opc(<<"a", "d", "d">>), Reg("1"), Reg("2"),
               Tok("DECIMAL", <<"#", "4", "0">>)>>>>) }

AgainPrograms ==
    { Prog(o, fs) :
        o \in AsmOrigins,
        fs \in UNION {[1 .. n -> AsmFragments] : n \in 0 .. MaxAgainStmts} }

\* the symbol table of the call before stays in use
passOnePrologue_stale ==
    [tokenIndex |-> 0, symbolTable |-> symbolTable, locationCounter |-> NaN]

\* passOne's first lines: this.tokenIndex = 0; const symbolTable = {};
\* let locationCounter = NaN
passOnePrologue ==
    [tokenIndex |-> 0, symbolTable |-> noSymbols, locationCounter |-> NaN]

\* new Assembler().loadProgram(first program), up to passOne's loop
InitAgain ==
    /\ lexInput = <<>>
    /\ currentPosition = 0
    /\ calls = 1
    /\ tokenList \in PriorPrograms
    /\ tokenIndex = 0
    /\ symbolTable = noSymbols
    /\ machineCode = <<>>
    /\ locationCounter = NaN
    /\ asmPc = "passOne"
    /\ CpuIdle
    /\ image = <<>>
    /\ SeIdle

\* the same Assembler's loadProgram is called again, up to passOne's loop;
\* this.machineCode keeps the vector of the call before until passTwo returns
LoadProgramAgain ==
    /\ asmPc \in {"done", "error"}
    /\ calls = 1
    /\ calls' = 2
    /\ tokenList' \in AgainPrograms
    /\ tokenIndex' = passOnePrologue.tokenIndex
    /\ symbolTable' = passOnePrologue.symbolTable
    /\ locationCounter' = passOnePrologue.locationCounter
    /\ asmPc' = "passOne"
    /\ UNCHANGED <<lexVars, machineCode, cpuVars, image, se>>

NextAgain ==
    \/ PassOneStep
    \/ PassOneReturn
    \/ PassTwoStep
    \/ PassTwoReturn
    \/ LoadProgramAgain

SpecAgain == InitAgain /\ [][NextAgain]_vars

\* C16: whenever a call of loadProgram has ended, the first on a new Assembler
\* or the second on one that has assembled another program or has thrown, it
\* has thrown exactly if a new Assembler throws on the same token list, and
\* otherwise its word vector and its symbol table are those a new Assembler
\* yields.
C16_HistoryFree ==
    asmPc \in {"done", "error"} =>
        /\ (asmPc = "done") = loadProgram(tokenList).ok
        /\ asmPc = "done" =>
              /\ machineCode = loadProgram(tokenList).mc
              /\ symbolTable = loadProgram(tokenList).st

\* C16 witness: after a first program that bound A and B, "ld r1, A" alone
\* has been assembled with A unbound: the offset field is 0
C16_Witness ==
    /\ asmPc = "done"
    /\ calls = 2
    /\ Len(tokenList) = 7
    /\ tokenList[4] = Opc(<<"l", "d">>)
    /\ tokenList[2].text = <<"x", "3", "0", "0", "0">>
    /\ DOMAIN symbolTable = {}
    /\ machineCode = <<12288, 8704>>

\* the number of the register named by the token at index i (counted from 0)
RegNumber(i) == CHOOSE d \in 0 .. 7 : Digits[d + 1] = tokenList[i + 1].text[2]

\* pass 2 is about to assemble JMP BaseR
JmpAhead ==
    /\ asmPc = "passTwo"
    /\ tokenIndex + 2 <= Len(tokenList)
    /\ tokenList[tokenIndex + 1] = Opc(<<"j", "m", "p">>)
    /\ tokenList[tokenIndex + 2].type = "REGISTER"

\* C18: the pass-2 iteration that assembles JMP BaseR pushes exactly one word,
\* 1100 000 BaseR 000000.
C18_JmpEmitted ==
    [][JmpAhead
         => /\ asmPc' = "passTwo"
            /\ machineCode' = Append(machineCode,
                                     49152 + 64 * RegNumber(tokenIndex + 1))]_vars

\* C18 witness: ".orig x3000 / jmp r3" has been assembled into the header alone
C18_Witness ==
    /\ asmPc = "done"
    /\ Len(tokenList) = 6
    /\ tokenList[4] = Opc(<<"j", "m", "p">>)
    /\ tokenList[5] = Reg("3")
    /\ machineCode = <<12288>>

\* no .ORIG but the opening one and no .END has been read so far in this pass
InFirstBlock ==
    \A i \in 2 .. tokenIndex : tokenList[i].type \notin {"ORIG", "END"}

\* C19: throughout pass 2, inside the program's first .ORIG block, the
\* location counter is the origin plus the number of words pushed after the
\* header, whatever statements have been assembled.
C19_LocationCounter ==
    (asmPc = "passTwo" /\ tokenIndex >= 2 /\ InFirstBlock)
        => /\ locationCounter # NaN
           /\ locationCounter = FirstOrigValue + (Len(machineCode) - 1)

\* C19 witness: ".orig x3000 / jmp r3 / A": pass 2 stands at A, which pass 1
\* bound to x3001, with no word pushed after the header
C19_Witness ==
    /\ asmPc = "passTwo"
    /\ tokenIndex = 5
    /\ tokenList[4] = Opc(<<"j", "m", "p">>)
    /\ tokenList[6] = LabelA
    /\ symbolTable[<<"A">>] = 12289
    /\ locationCounter = 12289
    /\ machineCode = <<12288>>

\* pass 2 is about to assemble NOT DR, SR
NotAhead ==
    /\ asmPc = "passTwo"
    /\ tokenIndex + 3 <= Len(tokenList)
    /\ tokenList[tokenIndex + 1] = Opc(<<"n", "o", "t">>)
    /\ tokenList[tokenIndex + 2].type = "REGISTER"
    /\ tokenList[tokenIndex + 3].type = "REGISTER"

\* C20: the pass-2 iteration that assembles NOT DR, SR pushes the word
\* 1001 DR SR 111111.
C20_NotLowBits ==
    [][NotAhead
         => /\ asmPc' = "passTwo"
            /\ machineCode' = Append(machineCode,
                                     36864 + 512 * RegNumber(tokenIndex + 1)
                                           + 64 * RegNumber(tokenIndex + 2) + 63)]_vars

\* C20 witness: ".orig x3000 / not r4, r5" has been assembled into x9940,
\* whose low six bits are 0
C20_Witness ==
    /\ asmPc = "done"
    /\ Len(tokenList) = 7
    /\ tokenList[4] = Opc(<<"n", "o", "t">>)
    /\ machineCode = <<12288, 39232>>

\* pass 2 is about to read a .ORIG that is not the program's first while no
\* section is open: an .END has closed the one before
OrigAfterEnd ==
    /\ asmPc = "passTwo"
    /\ tokenIndex > 0
    /\ tokenIndex + 2 <= Len(tokenList)
    /\ tokenList[tokenIndex + 1].type = "ORIG"
    /\ tokenList[tokenIndex + 2].type \in NUMBER_TYPES
    /\ locationCounter = NaN
    /\ \E i \in 1 .. tokenIndex : tokenList[i].type = "END"

\* C21: the pass-2 iteration over a .ORIG that follows an .END sets the
\* location counter to the directive's argument and appends no word: the
\* vector keeps the one header word of the program's first .ORIG.
C21_OneHeader ==
    [][OrigAfterEnd
         => /\ asmPc' = "passTwo"
            /\ locationCounter' = numLitToInt(tokenList[tokenIndex + 2].text)
            /\ machineCode' = machineCode]_vars

\* C21 witness: ".orig x3000 / .end / .orig x4000" has been assembled into
\* two header words
C21_Witness ==
    /\ asmPc = "done"
    /\ Len(tokenList) = 7
    /\ tokenList[4].type = "END"
    /\ tokenList[5].type = "ORIG"
    /\ tokenList[2].text = <<"x", "3", "0", "0", "0">>
    /\ locationCounter = 16384
    /\ machineCode = <<12288, 16384>>

(***************************************************************************)
(* Properties of the interpreter (Spec), continued                         *)
(***************************************************************************)
\* the word the next iteration fetches
NextWord == MemGet(memory, registers[RPC])

\* the cell a PC-relative instruction at RPC addresses: the incremented RPC
\* plus the signed 9-bit offset, modulo 2^16
PcRelativeCell == (registers[RPC] + 1 + BrOffset) % 65536

\* the next iteration executes LDI (1010) or STI (1011), and neither the
\* fetch nor the pointer cell nor the cell pointed to is the keyboard status
\* register
IndirectFetched(op) ==
    /\ pc = "loop"
    /\ registers[RPC] # KBSR
    /\ NextWord \div 4096 = op
    /\ PcRelativeCell # KBSR
    /\ MemGet(memory, PcRelativeCell) # KBSR

\* STI writes SR to memory[memory[PcRelativeCell]] and nothing else
StiWritesThroughPointer ==
    IndirectFetched(11)
        => /\ pc' = "loop"
           /\ registers' = [registers EXCEPT ![RPC] = (@ + 1) % 65536]
           /\ \A a \in (DOMAIN memory \cup DOMAIN memory') :
                 MemGet(memory', a) =
                    IF a = MemGet(memory, PcRelativeCell)
                    THEN registers[(NextWord \div 512) % 8]
                    ELSE MemGet(memory, a)
           /\ MemGet(memory', MemGet(memory, PcRelativeCell))
                 = registers[(NextWord \div 512) % 8]
           /\ out' = out

\* LDI sets DR to memory[memory[PcRelativeCell]], which is what LD followed
\* by LDR #0 reads, and the flags to its sign class
LdiReadsThroughPointer ==
    IndirectFetched(10)
        => /\ pc' = "loop"
           /\ registers' =
                 [[registers EXCEPT ![RPC] = (@ + 1) % 65536]
                     EXCEPT ![(NextWord \div 512) % 8] =
                               MemGet(memory, MemGet(memory, PcRelativeCell)),
                            ![RCOND] =
                               SignClass(MemGet(memory,
                                                MemGet(memory, PcRelativeCell)))]
           /\ memory' = memory
           /\ out' = out

\* C22: LDI and STI use the same pointer cell, computed modulo 2^16: LDI sets
\* DR to memory[memory[(RPC + signExtend(off9, 9)) mod 2^16]] and STI writes
\* SR to that same cell, RPC being the incremented program counter, also when
\* the sum exceeds 0xFFFF before the reduction.
C22_IndirectPointer ==
    [][LdiReadsThroughPointer /\ StiWritesThroughPointer]_vars

\* the STI half of C22 alone
C22_StiPointer == [][StiWritesThroughPointer]_vars

\* C22 witness: "ST R0, #1 / LDI R0, #-2" at x3000: the pointer cell x3000
\* holds x3001, whose word is xA1FE, and LDI has left R0 = 0 with Z set
C22_Witness ==
    /\ pc = "loop"
    /\ steps = 2
    /\ last.instruction = 41470
    /\ MemGet(memory, 12288) = 12289
    /\ MemGet(memory, 12289) = 41470
    /\ registers[RPC] = 12290
    /\ registers[R0] = 0
    /\ registers[RCOND] = Flag.ZRO

\* the next iteration executes JSR or JSRR (0100); the fetch is from plain
\* memory
JsrFetched ==
    /\ pc = "loop"
    /\ registers[RPC] # KBSR
    /\ NextWord \div 4096 = 4

\* the next iteration executes RET, that is JMP R7 (1100 000 111 000000)
RetFetched ==
    /\ pc = "loop"
    /\ registers[RPC] # KBSR
    /\ NextWord \div 4096 = 12
    /\ (NextWord \div 64) % 8 = R7

\* the registers once JSR/JSRR has saved the incremented RPC in R7
LinkSaved ==
    [registers EXCEPT ![RPC] = (@ + 1) % 65536,
                      ![R7] = (registers[RPC] + 1) % 65536]

\* the 11-bit offset of the word at RPC as a signed number
JsrOffset ==
    IF NextWord % 2048 >= 1024 THEN (NextWord % 2048) - 2048 ELSE NextWord % 2048

\* C23: the iteration that executes JSR or JSRR first saves the incremented
\* RPC in R7 and then sets RPC, JSR (bit 11 set) to the incremented RPC plus
\* the signed 11-bit offset modulo 2^16, JSRR to registers[BaseR] as the
\* registers then are, for BaseR = R7 as for R0..R6; a RET sets RPC to R7,
\* which is the address after the JSR/JSRR while R7 is unmodified.  No other
\* register, RCOND included, no memory word and no output changes.
C23_Link ==
    [][ /\ JsrFetched
           => /\ pc' = "loop"
              /\ registers' =
                    [LinkSaved EXCEPT ![RPC] =
                        IF (NextWord \div 2048) % 2 = 1
                        THEN (LinkSaved[RPC] + JsrOffset) % 65536
                        ELSE LinkSaved[(NextWord \div 64) % 8]]
              /\ memory' = memory
              /\ out' = out
        /\ RetFetched
           => /\ pc' = "loop"
              /\ registers' = [registers EXCEPT ![RPC] = registers[R7]]
              /\ memory' = memory
              /\ out' = out
        /\ (RetFetched /\ last.op \in {"JSR", "JSRR"} /\ steps = 1)
           => registers'[RPC] = PC_START + 1 ]_vars

\* C23 witness: "JSR #0 / RET" at x3000: the JSR at x3000 has left R7 = x3001
\* and the RET at x3001 has set RPC to x3001
C23_Witness ==
    /\ pc = "loop"
    /\ steps = 2
    /\ last.instruction = 49600
    /\ MemGet(memory, 12288) = 18432
    /\ registers[R7] = 12289
    /\ registers[RPC] = 12289

\* ... and "JSR #0 / JSRR R7": the JSRR at x3001 has saved x3002 in R7 and
\* jumped to it
C23_WitnessR7 ==
    /\ pc = "loop"
    /\ steps = 2
    /\ last.instruction = 16832
    /\ MemGet(memory, 12288) = 18432
    /\ registers[R7] = 12290
    /\ registers[RPC] = 12290

\* the next iteration executes TRAP with the given vector; the fetch is from
\* plain memory
TrapFetched(vector) ==
    /\ pc = "loop"
    /\ registers[RPC] # KBSR
    /\ NextWord \div 4096 = 15
    /\ NextWord % 256 = vector

\* C24: the iteration that executes TRAP x21 (OUT) calls put_char once, with
\* R0 & 0xFF, whatever the high byte of R0 is; R0, RCOND and memory are
\* unchanged.
C24_OutLowByte ==
    [][TrapFetched(33)
         => /\ pc' = "loop"
            /\ out' = Append(out, registers[R0] % 256)
            /\ registers'[R0] = registers[R0]
            /\ registers'[RCOND] = registers[RCOND]
            /\ memory' = memory]_vars

\* what OUT does: put_char receives R0 whole
C24_OutWholeWord ==
    [][TrapFetched(33)
         => /\ pc' = "loop"
            /\ out' = Append(out, registers[R0])
            /\ registers' = [registers EXCEPT ![RPC] = (@ + 1) % 65536,
                                              ![R7] = (registers[RPC] + 1) % 65536]
            /\ memory' = memory]_vars

\* C24 witness: "LD R0, #-1 / OUT" at x3000: R0 holds the LD word x21FF and
\* OUT has handed x21FF, not xFF, to put_char
C24_Witness ==
    /\ pc = "loop"
    /\ steps = 2
    /\ last.op = "OUT"
    /\ MemGet(memory, 12288) = 8703
    /\ registers[R0] = 8703
    /\ out = <<8703>>

\* the address LDR at RPC reads: registers[BaseR] plus the signed 6-bit
\* offset, modulo 2^16
BaseOffsetCell ==
    (registers[(NextWord \div 64) % 8]
       + (IF NextWord % 64 >= 32 THEN (NextWord % 64) - 64 ELSE NextWord % 64))
      % 65536

\* the address of LDI's first read as the LDI case computes it (see C22)
LdiPointerAddress ==
    ((registers[RPC] + 1) % 65536)
       + (IF BrOffset < 0 THEN BrOffset + 65536 ELSE BrOffset)

\* the scan of PUTS/PUTSP from `address` comes to KBSR before it comes to a
\* zero word or to the end of memory
RECURSIVE ScanReachesKBSR(_)
ScanReachesKBSR(address) ==
    IF address > 65535 THEN FALSE
    ELSE IF address = KBSR THEN TRUE
    ELSE IF MemGet(memory, address) = 0 THEN FALSE
    ELSE ScanReachesKBSR(address + 1)

\* the next iteration reads address KBSR: by its fetch, or by the read of LD,
\* LDR, LDI (pointer or target), STI (pointer), PUTS or PUTSP
ReadsKBSR ==
    \/ registers[RPC] = KBSR
    \/ /\ NextWord \div 4096 = 2
       /\ PcRelativeCell = KBSR
    \/ /\ NextWord \div 4096 = 6
       /\ BaseOffsetCell = KBSR
    \/ /\ NextWord \div 4096 = 10
       /\ \/ LdiPointerAddress = KBSR
          \/ MemGet(memory, LdiPointerAddress) = KBSR
    \/ /\ NextWord \div 4096 = 11
       /\ PcRelativeCell = KBSR
    \/ /\ NextWord \div 4096 = 15
       /\ NextWord % 256 \in {34, 36}
       /\ ScanReachesKBSR(registers[R0])

\* the next iteration executes ST, STR or STI, fetched from plain memory
StoreFetched ==
    /\ registers[RPC] # KBSR
    /\ NextWord \div 4096 \in {3, 7, 11}

\* the next iteration executes TRAP GETC or TRAP IN, which ask the IO
\* provider for a character without reading memory
InputTrapFetched ==
    /\ registers[RPC] # KBSR
    /\ NextWord \div 4096 = 15
    /\ NextWord % 256 \in {32, 35}

\* C25: an iteration that reads address KBSR (by its fetch, LD, LDR, LDI,
\* STI's pointer read or the scan of PUTS/PUTSP) polls the IO provider once:
\* with a non-zero character c, memory[KBSR] becomes 0x8000 and memory[KBDR]
\* becomes c; otherwise memory[KBSR] becomes 0 and memory[KBDR] is unchanged.
\* An iteration that reads only other addresses polls nothing and, unless it
\* is a store, changes no memory word.
C25_KeyboardPoll ==
    [][(pc = "loop" /\ steps' = steps + 1)
         => IF ReadsKBSR
            THEN /\ last'.polls = 1
                 /\ \/ pc' = "exited" /\ memory' = memory
                    \/ /\ pc' # "exited"
                       /\ \E c \in Keys :
                             IF c # 0
                             THEN /\ MemGet(memory', KBSR) = 32768
                                  /\ MemGet(memory', KBDR) = c
                             ELSE /\ MemGet(memory', KBSR) = 0
                                  /\ MemGet(memory', KBDR) = MemGet(memory, KBDR)
                       /\ StoreFetched
                          \/ \A a \in (DOMAIN memory \cup DOMAIN memory')
                                         \ {KBSR, KBDR} :
                                MemGet(memory', a) = MemGet(memory, a)
            ELSE /\ last'.polls = IF InputTrapFetched THEN 1 ELSE 0
                 /\ StoreFetched \/ memory' = memory]_vars

\* C25 witness: "LDI R0, #0 / xFE00" at x3000 with the key A: the pointer
\* cell x3001 holds KBSR, the read of KBSR has polled, and R0 is x8000
C25_Witness ==
    /\ pc = "loop"
    /\ steps = 1
    /\ last.op = "LDI"
    /\ last.polls = 1
    /\ MemGet(memory, 12289) = KBSR
    /\ MemGet(memory, KBSR) = 32768
    /\ MemGet(memory, KBDR) = 65
    /\ registers[R0] = 32768

\* ... "GETC / PUTS" with the key xFE00 and then no key: the scan has read
\* KBSR, polled once and printed nothing
C25_WitnessPuts ==
    /\ pc = "loop"
    /\ steps = 2
    /\ last.op = "PUTS"
    /\ last.polls = 1
    /\ registers[R0] = KBSR
    /\ MemGet(memory, KBSR) = 0
    /\ out = <<>>

\* ... "GETC / LDR R0, R0, #0" with the key xFE00 and then no key: LDR has
\* read KBSR, polled and loaded the cleared status
C25_WitnessLdr ==
    /\ pc = "loop"
    /\ steps = 2
    /\ last.instruction = 24576
    /\ last.polls = 1
    /\ MemGet(memory, KBSR) = 0
    /\ MemGet(memory, KBDR) = 0
    /\ registers[R0] = 0

\* ... and "GETC / JMP R0" with the key xFE00 and then the key A: the fetch
\* from KBSR has polled and fetched x8000, an RTI
C25_WitnessFetch ==
    /\ pc = "thrown"
    /\ steps = 3
    /\ last.op = "RTI"
    /\ last.polls = 1
    /\ registers[RPC] = KBSR + 1
    /\ MemGet(memory, KBSR) = 32768
    /\ MemGet(memory, KBDR) = 65

(***************************************************************************)
(* Properties of the loaders (SpecObj), continued                          *)
(***************************************************************************)
\* C26: CPU.loadArray of a word vector W = [origin, w1, ..., wN] leaves the
\* memory that CPU.loadImage leaves when given the big-endian bytes of W:
\* memory[origin + i - 1] = wi for every i in 1..N whose address is at most
\* 0xFFFF, the origin header is stored nowhere and every other word is as it
\* was.
C26_LoadersAgree ==
    [][ (pc = "vector" /\ pc' = "array")
          => /\ memory' = loadImage(memory, asArrayBuffer(machineCode))
             /\ LET origin == machineCode[1]
                    N == Len(machineCode) - 1
                IN  \A a \in (DOMAIN memory \cup DOMAIN memory'
                                \cup ((origin - 1) .. (origin + N)))
                               \cap (0 .. 65535) :
                       MemGet(memory', a) =
                          IF a \in origin .. (origin + N - 1)
                          THEN machineCode[a - origin + 2]
                          ELSE MemGet(memory, a) ]_vars

\* what loadArray does: the whole vector, header included, lands at origin
C26_ArrayStoresHeader ==
    [][ (pc = "vector" /\ pc' = "array")
          => LET origin == machineCode[1]
                 N == Len(machineCode) - 1
             IN  \A a \in (DOMAIN memory \cup DOMAIN memory'
                             \cup ((origin - 1) .. (origin + N + 1)))
                            \cap (0 .. 65535) :
                    MemGet(memory', a) =
                       IF a \in origin .. (origin + N)
                       THEN machineCode[a - origin + 1]
                       ELSE MemGet(memory, a) ]_vars

\* C26 witness: loadArray of [x3000, x1234, x00FF] has stored the header at
\* x3000 and the two words one cell higher than loadImage stores them
C26_Witness ==
    /\ pc = "array"
    /\ machineCode = <<12288, 4660, 255>>
    /\ MemGet(memory, 12288) = 12288
    /\ MemGet(memory, 12289) = 4660
    /\ MemGet(memory, 12290) = 255

(***************************************************************************)
(* Properties of the assembler (SpecAsm), continued                        *)
(***************************************************************************)
\* the token at index i (counted from 0) is LDR or STR with a label as its
\* offset operand
IsBaseLabelRef(i) ==
    /\ i >= 0
    /\ i + 4 <= Len(tokenList)
    /\ tokenList[i + 1].type = "OPCODE"
    /\ tokenList[i + 1].text \in {<<"l", "d", "r">>, <<"s", "t", "r">>}
    /\ tokenList[i + 2].type = "REGISTER"
    /\ tokenList[i + 3].type = "REGISTER"
    /\ tokenList[i + 4].type = "LABEL"

\* pass 2 is about to assemble a statement whose label operand pass 1 has
\* not bound to a number: the label is defined nowhere, or only where the
\* location counter is undefined
UnresolvedLabelAhead ==
    /\ asmPc = "passTwo"
    /\ \/ IsLabelRef(tokenIndex) /\ ~Defined(RefLabel(tokenIndex))
       \/ IsBaseLabelRef(tokenIndex) /\ ~Defined(tokenList[tokenIndex + 4].text)
       \/ IsLabelFill(tokenIndex) /\ ~Defined(tokenList[tokenIndex + 2].text)

\* C27: a pass-2 iteration over a statement (LD, LDI, LEA, ST, STI, BR*, JSR,
\* LDR, STR or .FILL) whose label operand has no numeric address in the
\* symbol table aborts the assembly and pushes no word.
C27_UnresolvedLabelIsFatal ==
    [][UnresolvedLabelAhead => (asmPc' = "error" /\ machineCode' = machineCode)]_vars

\* what pass 2 does with such a label: the statement's word is pushed with an
\* operand field of 0
C27_UnresolvedLabelIsZero ==
    [][UnresolvedLabelAhead
         => /\ asmPc' = "passTwo"
            /\ Len(machineCode') = Len(machineCode) + 1
            /\ machineCode'[Len(machineCode')]
                  % (IF IsLabelFill(tokenIndex) THEN 65536
                     ELSE IF IsBaseLabelRef(tokenIndex) THEN 64
                     ELSE Pow2(RefBits(tokenIndex))) = 0]_vars

\* C27 witness: ".orig x3000 / ld r1, A" with A defined nowhere has been
\* assembled into x2200, LD R1 with offset 0
C27_Witness ==
    /\ asmPc = "done"
    /\ calls = 1
    /\ Len(tokenList) = 7
    /\ tokenList[4] = Opc(<<"l", "d">>)
    /\ tokenList[6] = LabelA
    /\ <<"A">> \notin DOMAIN symbolTable
    /\ machineCode = <<12288, 8704>>

\* ... and ".orig x3000 / .end / A / ld r1, A", where pass 1 has bound A to
\* an undefined location counter, likewise
C27_WitnessOutside ==
    /\ asmPc = "done"
    /\ Len(tokenList) = 9
    /\ tokenList[4].type = "END"
    /\ tokenList[5] = LabelA
    /\ tokenList[6] = Opc(<<"l", "d">>)
    /\ symbolTable[<<"A">>] = NaN
    /\ machineCode = <<12288, 8704>>

(***************************************************************************)
(* Properties of the interpreter (Spec): the frame of the condition flags  *)
(***************************************************************************)
\* the next iteration executes an instruction that does not set the flags:
\* BR, JMP/RET, JSR/JSRR, ST, STI, STR, or a TRAP other than GETC and IN; the
\* fetch is from plain memory
NoFlagFetched ==
    /\ pc = "loop"
    /\ registers[RPC] # KBSR
    /\ \/ NextWord \div 4096 \in {0, 12, 4, 3, 11, 7}
       \/ /\ NextWord \div 4096 = 15
          /\ NextWord % 256 \notin {32, 35}

\* the next iteration executes ST (0011), STR (0111) or STI (1011)
StoreAhead == pc = "loop" /\ StoreFetched

\* STI's pointer read is a read of KBSR, which polls
StorePolls == NextWord \div 4096 = 11 /\ PcRelativeCell = KBSR

\* the address the store at RPC writes; STI takes it from its pointer cell
\* as that cell is after the read
StoreTarget ==
    CASE NextWord \div 4096 = 3 -> PcRelativeCell
      [] NextWord \div 4096 = 7 -> BaseOffsetCell
      [] NextWord \div 4096 = 11 ->
           IF StorePolls THEN MemGet(memory', KBSR)
           ELSE MemGet(memory, PcRelativeCell)

\* C28: BR, JMP/RET, JSR/JSRR, ST, STI, STR and every TRAP but GETC and IN
\* (OUT, PUTS, PUTSP, HALT and the vectors outside x20..x25) leave RCOND as
\* it was, while JSR/JSRR and every TRAP write R7; ST, STI and STR leave
\* R0..R7 as they were and change at most the addressed memory word, to the
\* source register's value, beside what a poll of KBSR writes.
C28_FlagFrame ==
    [][ /\ NoFlagFetched => registers'[RCOND] = registers[RCOND]
        /\ (NoFlagFetched /\ NextWord \div 4096 \in {4, 15})
              => registers'[R7] = (registers[RPC] + 1) % 65536
        /\ StoreAhead
              => /\ registers' = [registers EXCEPT ![RPC] = (@ + 1) % 65536]
                 /\ out' = out
                 /\ pc' = "exited"
                    \/ \A a \in ((DOMAIN memory \cup DOMAIN memory'
                                    \cup {StoreTarget})
                                   \ (IF StorePolls THEN {KBSR, KBDR} ELSE {}))
                                  \cap (0 .. 65535) :
                          MemGet(memory', a) =
                             IF a = StoreTarget
                             THEN registers[(NextWord \div 512) % 8]
                             ELSE MemGet(memory, a) ]_vars

\* C28 witness: "ADD R0, R0, #-1 / ST R0, #1" at x3000: the store has written
\* xFFFF to x3003 and the flags are still N
C28_Witness ==
    /\ pc = "loop"
    /\ steps = 2
    /\ last.instruction = 12289
    /\ MemGet(memory, 12288) = 4159
    /\ MemGet(memory, 12291) = 65535
    /\ registers[R0] = 65535
    /\ registers[RCOND] = Flag.NEG

\* ... and "ADD R0, R0, #-1 / TRAP x00": the trap has written R7 and the
\* flags are still N
C28_WitnessTrap ==
    /\ pc = "loop"
    /\ steps = 2
    /\ last.instruction = 61440
    /\ MemGet(memory, 12288) = 4159
    /\ registers[R7] = 12290
    /\ registers[RCOND] = Flag.NEG

====
